---- MODULE Spec2Model ----
(***************************************************************************)
(* Siglent SDS acquisition state machine (hardware/siglent-sds/protocol.c) *)
(* as a state machine.  The poll callback siglent_sds_receive is split     *)
(* into steps at the points where it talks to the transport; loc.pc is     *)
(* the position of the callback.  Every step is forced by loc.pc, so a     *)
(* poll always runs to its return.                                         *)
(*                                                                         *)
(* devc  : struct dev_context (fields keep the names of the source)        *)
(* loc   : locals of siglent_sds_receive / siglent_sds_event_wait          *)
(* scpi  : the transport and the device behind it (command log, the        *)
(*         response the device is streaming, the wall clock)               *)
(* sess  : the session bus (events delivered, source subscription)         *)
(* ghost : history variables used only to state properties; ghost.fault    *)
(*         records a transport failure that changes the course of the      *)
(*         acquisition (a failed send, query or read_begin after which the *)
(*         poll returns and is repeated unchanged is not recorded);        *)
(*         ghost.aligned tells whether the header parsed last was read     *)
(*         from the start of a response                                    *)
(* wbd   : the waveform block decoder at work on one block: the locals of  *)
(*         siglent_sds_get_digital and of the analog conversion.  The      *)
(*         acquisition state machine treats the decoders by their effect   *)
(*         on the session only (wbd stays idle); they are followed byte by *)
(*         byte under the specification SpecDecoder                        *)
(***************************************************************************)
EXTENDS Integers, Sequences, FiniteSets, TLC

VARIABLES devc, loc, scpi, sess, ghost, wbd

vars == <<devc, loc, scpi, sess, ghost, wbd>>

----------------------------------------------------------------------------
(* Bounds of the model *)

\* Largest frame limit a host configures / frame count a device reports.
MaxFrames == 2
\* Largest payload length (in samples) a well-formed descriptor declares.
MaxDataLength == 2
\* Clock resolution: ticks per wall-clock second.
TicksPerSec == 4

----------------------------------------------------------------------------
(* Program constants *)

SR_OK == 0
SR_ERR == 0 - 1
SIGLENT_HEADER_SIZE == 363
\* Values of :INR? that capture_start compares with (kept by name).
DEVICE_STATE_TRIG_RDY == "DEVICE_STATE_TRIG_RDY"
DEVICE_STATE_DATA_TRIG_RDY == "DEVICE_STATE_DATA_TRIG_RDY"
\* Any other value of :INR?.
DEVICE_STATE_OTHER == "OTHER"
\* "devc->retry_count < 5"
MaxRetries == 5
\* "time(NULL) - start >= 3"
TimeoutSeconds == 3
\* "MIN(10240, loop_bytes_available)"
LoopChunk == 10240
\* Bytes of line feed that follow a payload.
TerminatorBytes == 2

Protocols == {"SPO_MODEL", "NON_SPO_MODEL", "ESERIES"}
DataSources == {"SCREEN", "HISTORY", "READ_ONLY"}

Analog(i) == [type |-> "ANALOG", index |-> i]
Logic(i) == [type |-> "LOGIC", index |-> i]

\* The enabled-channel lists explored.
ChannelLists ==
    { <<Analog(0)>>, <<Analog(0), Analog(1)>>, <<Logic(0)>>,
      <<Analog(0), Logic(0)>> }

Min(a, b) == IF a < b THEN a ELSE b

\* Unsigned 64 bit fields that take their value from a 32 bit descriptor
\* word (num_samples) are kept as follows: a value below 2^31 as itself, a
\* value with bit 31 set as its two's complement reading, a negative number
\* (the model checker has no integers beyond 2^31 - 1).

\* a <= b on unsigned values in this representation.
ULessEq(a, b) ==
    IF a < 0 THEN b < 0 /\ a <= b ELSE b < 0 \/ a <= b

\* (int)(a - b) for unsigned a, b in this representation: the low 32 bits
\* of the difference read as a signed number.
IntDiff_Swapped(a, b) == b - a

IntDiff(a, b) == a - b

\* A descriptor length with bit 31 set (0xFFFFFFFF).
NegativeLength == 0 - 1

\* A payload longer than a header.
LongLength == SIGLENT_HEADER_SIZE + MaxDataLength

\* Data lengths a descriptor can declare (bytes 60..63 of the descriptor):
\* 0 (empty), small positive lengths, a length above the header size, and a
\* value with bit 31 set.
DataLengths == (0..MaxDataLength) \cup {LongLength, NegativeLength}

\* Values found at the data length offset when payload bytes are read as a
\* header.
GarbageLengths == {0, LongLength, NegativeLength}

----------------------------------------------------------------------------
(* Session bus *)

Ev(t, c) == [type |-> t, ch |-> c]

\* The log of the packets sent to the session.  A run of analog packets of
\* one channel is logged as one entry (their sample counts are summed in
\* ghost.delivered).
Emit(se, e) ==
    IF /\ e.type = "analog"
       /\ se.events # <<>>
       /\ se.events[Len(se.events)] = e
    THEN se
    ELSE [se EXCEPT !.events = Append(@, e)]

std_session_send_df_frame_begin(se) == Emit(se, Ev("frame_begin", 0))

std_session_send_df_frame_end(se) == Emit(se, Ev("frame_end", 0))

\* dev_acquisition_stop of the driver: sends the end packet and removes the
\* poll source (as hw_dev_acquisition_stop of the sibling driver does).
dev_acquisition_stop(se) ==
    [Emit(se, Ev("end", 0)) EXCEPT !.running = FALSE,
                                  !.stop_requests = @ + 1,
                                  !.poll_stops = @ + 1]

----------------------------------------------------------------------------
(* Transport *)

\* The device answers a waveform fetch by streaming header, payload and two
\* line feeds; a descriptor with bit 31 of the length set carries no payload.
PayloadBytes(L) == IF L < 0 THEN 0 ELSE L

ResponseBytes(L) == SIGLENT_HEADER_SIZE + PayloadBytes(L) + TerminatorBytes

Remaining(sc) ==
    IF sc.responding THEN ResponseBytes(sc.stream_len) - sc.stream_pos ELSE 0

\* sr_scpi_send: log the command.
Send(sc, cmd) == [sc EXCEPT !.cmds = Append(@, cmd)]

\* A fetch command that repeats the command sent last is logged once.
SendAgain(sc, cmd) ==
    IF sc.cmds # <<>> /\ sc.cmds[Len(sc.cmds)] = cmd THEN sc
    ELSE Send(sc, cmd)

\* sr_scpi_get_string / sr_scpi_get_int: a query changes nothing in the
\* device; queries are not logged.
Query(sc, q) == sc

\* A waveform fetch makes the device start a new response of length L.
SendFetch(sc, cmd, L) ==
    [SendAgain(sc, cmd) EXCEPT !.responding = TRUE, !.stream_len = L,
                               !.stream_pos = 0]

\* Results sr_scpi_read_data(maxlen = n) can give: -1 (nothing available
\* now), 0, or a short read of 1..n bytes of what the device still holds
\* (every split of a short request, the whole of a long one).
ReadResults(sc, n) ==
    LET m == Min(n, Remaining(sc))
    IN {0 - 1, 0} \cup {k \in 1..m : k = m \/ m <= MaxDataLength + 1}

\* Bytes handed to the caller leave the device; a response handed over
\* completely is over.
Consume(sc, k) ==
    IF k <= 0 THEN sc
    ELSE IF k >= Remaining(sc)
    THEN [sc EXCEPT !.responding = FALSE, !.stream_len = 0, !.stream_pos = 0]
    ELSE [sc EXCEPT !.stream_pos = @ + k]

----------------------------------------------------------------------------
(* siglent_sds_set_wait_event *)

set_wait_event_AnyProtocol(d, event) ==
    IF event = "WAIT_STOP"
    THEN [d EXCEPT !.wait_status = 2, !.wait_event = "WAIT_STOP"]
    ELSE [d EXCEPT !.wait_status = 1, !.wait_event = event]

set_wait_event(d, event) ==
    IF event = "WAIT_STOP"
    THEN IF d.protocol = "ESERIES"
         THEN [d EXCEPT !.wait_status = 2, !.wait_event = "WAIT_STOP"]
         ELSE [d EXCEPT !.wait_status = 2]
    ELSE [d EXCEPT !.wait_status = 1, !.wait_event = event]

----------------------------------------------------------------------------
(* siglent_sds_channel_start *)

CurrentChannel(d) == d.enabled_channels[d.channel_entry]

\* The waveform fetch command for the current channel, <<>> when none is sent.
FetchCmd(d) ==
    LET ch == CurrentChannel(d)
    IN IF d.protocol \in {"NON_SPO_MODEL", "SPO_MODEL"}
       THEN IF ch.type = "LOGIC" THEN <<"D:WF?", ch.index + 1>>
            ELSE <<"C:WF? ALL", ch.index + 1>>
       ELSE IF ch.type = "ANALOG" THEN <<"C:WF? ALL", ch.index + 1>>
            ELSE <<>>

\* What the transport and the device do during one channel start: the send
\* fails, or it succeeds and the device will declare length L.
ChannelStartInputs ==
    {[send_ok |-> TRUE, L |-> L] : L \in DataLengths}
        \cup {[send_ok |-> FALSE, L |-> 0]}

\* send_ok: whether sr_scpi_send succeeds; L: the length the device will
\* declare in its response.
channel_start_KeepEvent(d, sc, send_ok, L) ==
    IF FetchCmd(d) # <<>> /\ ~send_ok
    THEN [ret |-> SR_ERR, devc |-> d, scpi |-> sc]
    ELSE [ret |-> SR_OK,
          devc |-> [d EXCEPT !.num_channel_bytes = 0,
                             !.num_header_bytes = 0,
                             !.num_block_bytes = 0],
          scpi |-> IF FetchCmd(d) # <<>>
                   THEN SendFetch(sc, FetchCmd(d), L) ELSE sc]

channel_start(d, sc, send_ok, L) ==
    IF FetchCmd(d) # <<>> /\ ~send_ok
    THEN [ret |-> SR_ERR, devc |-> d, scpi |-> sc]
    ELSE [ret |-> SR_OK,
          devc |-> set_wait_event(
                       [d EXCEPT !.num_channel_bytes = 0,
                                 !.num_header_bytes = 0,
                                 !.num_block_bytes = 0], "WAIT_NONE"),
          scpi |-> IF FetchCmd(d) # <<>>
                   THEN SendFetch(sc, FetchCmd(d), L) ELSE sc]

----------------------------------------------------------------------------
(* siglent_sds_capture_start *)

\* Replies of the device to one call of capture_start: fail_at = i makes the
\* i-th transport call of the call fail (0: none fails); inr is the :INR?
\* value, framecount the count in FPAR? / :FRAM?, trmd and hsmd the replies
\* to :TRMD? and :HSMD?, L the data length of the next waveform response.
\* CaptureInputsFor(d) holds the replies capture_start looks at under the
\* protocol and data source of d; the replies it never asks for are fixed.
CaptureInputsFor(d) ==
    LET fix(F, I, N, T, H, LL) ==
            [fail_at : F, inr : I, framecount : N, trmd : T, hsmd : H, L : LL]
        inrs == {DEVICE_STATE_TRIG_RDY, DEVICE_STATE_DATA_TRIG_RDY,
                 DEVICE_STATE_OTHER}
        none == {DEVICE_STATE_OTHER}
    IN CASE d.protocol = "SPO_MODEL" /\ d.data_source = "SCREEN" ->
              fix(0..2, inrs, {1}, {"STOP"}, {"OFF"}, {1})
         [] d.protocol = "SPO_MODEL" /\ d.data_source = "HISTORY" ->
              fix(0..4, none, 0..MaxFrames, {"STOP"}, {"OFF"}, DataLengths)
         [] d.protocol = "ESERIES" /\ d.data_source = "SCREEN" ->
              fix(0..1, none, {1}, {"STOP"}, {"OFF"}, {1})
         [] d.protocol = "ESERIES" /\ d.data_source = "HISTORY" ->
              fix(0..5, none, 0..MaxFrames, {"STOP", "AUTO"}, {"OFF", "ON"},
                  {1})
         [] OTHER -> fix({0}, none, {1}, {"STOP"}, {"OFF"}, {1})

Fail(d, sc) == [ret |-> SR_ERR, devc |-> d, scpi |-> sc]

Done(d, sc) == [ret |-> SR_OK, devc |-> d, scpi |-> sc]

capture_start_spo_screen_Lenient(d, sc, inp) ==
    IF inp.fail_at = 1 THEN Fail(d, sc)
    ELSE LET sc1 == Send(sc, <<"ARM">>)
         IN IF inp.fail_at = 2 THEN Fail(d, sc1)
            ELSE LET sc2 == Query(sc1, <<":INR?">>)
                 IN IF inp.inr = DEVICE_STATE_DATA_TRIG_RDY
                    THEN Done(set_wait_event(d, "WAIT_BLOCK"), sc2)
                    ELSE Done(set_wait_event(d, "WAIT_TRIGGER"), sc2)

capture_start_spo_screen(d, sc, inp) ==
    IF inp.fail_at = 1 THEN Fail(d, sc)
    ELSE LET sc1 == Send(sc, <<"ARM">>)
         IN IF inp.fail_at = 2 THEN Fail(d, sc1)
            ELSE LET sc2 == Query(sc1, <<":INR?">>)
                 IN IF inp.inr = DEVICE_STATE_TRIG_RDY
                    THEN Done(set_wait_event(d, "WAIT_TRIGGER"), sc2)
                    ELSE IF inp.inr = DEVICE_STATE_DATA_TRIG_RDY
                    THEN Done(set_wait_event(d, "WAIT_BLOCK"), sc2)
                    ELSE Fail(d, sc2)

capture_start_spo_history(d, sc, inp) ==
    IF inp.fail_at = 1 THEN Fail(d, sc)
    ELSE LET sc1 == Send(sc, <<"FPAR?">>)
         IN IF inp.fail_at = 2 THEN Fail(d, sc1)
            ELSE LET d1 == IF d.limit_frames > inp.framecount THEN d
                           ELSE IF d.limit_frames = 0
                           THEN [d EXCEPT !.limit_frames = inp.framecount]
                           ELSE d
                 IN IF inp.fail_at = 3 THEN Fail(d1, sc1)
                    ELSE LET sc3 == Send(sc1, <<"FRAM", d1.num_frames + 1>>)
                             cs == channel_start(d1, sc3, inp.fail_at # 4,
                                                 inp.L)
                         IN IF cs.ret # SR_OK THEN Fail(d1, sc3)
                            ELSE Done(set_wait_event(cs.devc, "WAIT_STOP"),
                                      cs.scpi)

capture_start_eseries_screen(d, sc, inp) ==
    LET d1 == [d EXCEPT !.limit_frames = 1, !.close_history = FALSE]
    IN IF inp.fail_at = 1 THEN Fail(d1, sc)
       ELSE Done(set_wait_event(d1, "WAIT_STOP"),
                 Send(sc, <<":TRMD SINGLE">>))

capture_start_eseries_history(d, sc, inp) ==
    IF inp.fail_at = 1 THEN Fail(d, sc)
    ELSE LET sc1 == Query(sc, <<":TRMD?">>)
             d1 == [d EXCEPT !.close_history = (inp.trmd # "STOP")]
         IN IF inp.fail_at = 2 THEN Fail(d1, sc1)
            ELSE LET sc2 == Query(sc1, <<":HSMD?">>)
                 IN IF inp.fail_at = 3 THEN Fail(d1, sc2)
                    ELSE LET sc3 == IF inp.hsmd = "OFF"
                                    THEN Send(sc2, <<":HSMD ON">>)
                                    ELSE Send(sc2, <<"FRAM", 10000000>>)
                         IN IF inp.fail_at = 4 THEN Fail(d1, sc3)
                            ELSE LET sc4 == Query(sc3, <<":FRAM?">>)
                                 IN IF inp.framecount < 1 THEN Fail(d1, sc4)
                                    ELSE LET d2 == [d1 EXCEPT !.limit_frames =
                                                       inp.framecount]
                                         IN IF inp.fail_at = 5
                                            THEN Fail(d2, sc4)
                                            ELSE Done(
                                              set_wait_event(d2, "WAIT_STOP"),
                                              Send(sc4, <<"FRAM", 1>>))

capture_start_eseries_read_only(d, sc, inp) ==
    Done(set_wait_event([d EXCEPT !.close_history = FALSE,
                                  !.limit_frames = 1], "WAIT_STOP"), sc)

capture_start(d0, sc, inp) ==
    LET d == [d0 EXCEPT !.retry_count = 0]
    IN CASE d.protocol = "SPO_MODEL" /\ d.data_source = "SCREEN" ->
                capture_start_spo_screen(d, sc, inp)
         [] d.protocol = "SPO_MODEL" /\ d.data_source = "HISTORY" ->
                capture_start_spo_history(d, sc, inp)
         [] d.protocol = "SPO_MODEL" /\ d.data_source = "READ_ONLY" ->
                Done(set_wait_event(d, "WAIT_STOP"), sc)
         [] d.protocol = "ESERIES" /\ d.data_source = "SCREEN" ->
                capture_start_eseries_screen(d, sc, inp)
         [] d.protocol = "ESERIES" /\ d.data_source = "HISTORY" ->
                capture_start_eseries_history(d, sc, inp)
         [] d.protocol = "ESERIES" /\ d.data_source = "READ_ONLY" ->
                capture_start_eseries_read_only(d, sc, inp)
         [] d.protocol = "NON_SPO_MODEL" ->
                Done(set_wait_event(d, "WAIT_TRIGGER"), sc)

----------------------------------------------------------------------------
(* siglent_sds_read_header *)

\* The do-while loop over sr_scpi_read_data: script is the sequence of
\* results the transport gives to the successive calls (a call after the end
\* of the script finds nothing and gives -1).
\* reads counts the calls made.
header_loop_Once(total, script, i) ==
    LET r == IF i > Len(script) THEN 0 - 1 ELSE script[i]
    IN IF r = 0 - 1 THEN [ret |-> SR_ERR, total |-> total, reads |-> i]
       ELSE IF r = 0 THEN [ret |-> SR_ERR, total |-> total, reads |-> i]
       ELSE [ret |-> SR_OK, total |-> total + r, reads |-> i]

RECURSIVE header_loop(_, _, _)
header_loop(total, script, i) ==
    LET r == IF i > Len(script) THEN 0 - 1 ELSE script[i]
    IN IF r = 0 - 1 THEN [ret |-> SR_ERR, total |-> total, reads |-> i]
       ELSE IF r = 0 THEN [ret |-> SR_ERR, total |-> total, reads |-> i]
       ELSE IF total + r < SIGLENT_HEADER_SIZE
            THEN header_loop(total + r, script, i + 1)
            ELSE [ret |-> SR_OK, total |-> total + r, reads |-> i]

\* Result sequences the transport can give to the header loop when the
\* device still holds rem bytes of its response: a call gives at most the
\* bytes asked for, SIGLENT_HEADER_SIZE less those read so far.
HeaderScripts(rem) ==
    IF rem >= SIGLENT_HEADER_SIZE
    THEN { <<363>>, <<64, 64, 64, 64, 64, 43>>,
           <<52, 52, 52, 52, 52, 52, 51>>, <<362, 1>>,
           <<0 - 1>>, <<0>>, <<64, 0 - 1>>, <<64, 0>> }
    ELSE IF rem > 0 THEN { <<rem, 0 - 1>>, <<0 - 1>>, <<0>> }
    ELSE { <<0 - 1>>, <<0>> }

\* garbage: the value found at the data length offset when the bytes read
\* as header are not the header of a response.
read_header(d, sc, script, garbage) ==
    LET lp == header_loop(0, script, 1)
        aligned == sc.responding /\ sc.stream_pos = 0
        sc1 == Consume(sc, lp.total)
        data_length == IF aligned THEN sc.stream_len ELSE garbage
        d1 == [d EXCEPT !.num_header_bytes = @ + lp.total]
    IN IF lp.ret = SR_ERR THEN [ret |-> SR_ERR, devc |-> d, scpi |-> sc1]
       ELSE IF data_length = 0
       THEN [ret |-> SR_ERR, devc |-> d1,
             scpi |-> Consume(sc1, Min(3, Remaining(sc1)))]
       ELSE [ret |-> lp.total,
             devc |-> [d1 EXCEPT !.num_samples = data_length],
             scpi |-> sc1]

----------------------------------------------------------------------------
(* siglent_sds_get_digital, as seen by its caller *)

\* What the transport does during the logic fetch.
DigitalOutcomes == {"send_fail", "begin_fail", "read_fail", "ok", "len15"}

\* The outcomes in which a transport call of the fetch fails.
DigitalFailures == {"send_fail", "begin_fail", "read_fail"}

\* The return value: SR_ERR when the send fails, TRUE (1) when read_begin or
\* the read fails, else the length of the last read minus the 15 header bytes.
get_digital_ret(outcome) ==
    CASE outcome = "send_fail" -> SR_ERR
      [] outcome = "begin_fail" -> 1
      [] outcome = "read_fail" -> 1
      [] outcome = "len15" -> 0
      [] OTHER -> 16

get_digital_scpi(d, sc, outcome) ==
    IF outcome = "send_fail" THEN sc
    ELSE SendAgain(sc, <<"D:WF? DAT2", CurrentChannel(d).index>>)

----------------------------------------------------------------------------
(* State *)

Count(evs, t) == Cardinality({i \in DOMAIN evs : evs[i].type = t})

FrameOpen(se) == Count(se.events, "frame_begin") > Count(se.events, "frame_end")

\* time(NULL): the wall clock in whole seconds.
Time(sc) == sc.now \div TicksPerSec

\* "return TRUE" of siglent_sds_receive: the locals die.
Return(l) ==
    [l EXCEPT !.pc = "idle", !.loop_bytes_read = 0,
              !.loop_bytes_available = 0, !.start = 0, !.header_reads = 0]

\* An abort branch of siglent_sds_receive: frame end, then stop.
Abort(se) == dev_acquisition_stop(std_session_send_df_frame_end(se))

\* ghost.path: why the acquisition ended ("none" while it runs).
Aborted(g, why) == [g EXCEPT !.path = IF @ = "none" THEN why ELSE @]

\* ghost.rearm_failed: the last call of capture_start between two frames
\* returned an error.
\* ghost.trmd: the reply to :TRMD? read by the last arming that asked for it.
Armed(g, d, inp) ==
    IF d.protocol = "ESERIES" /\ d.data_source = "HISTORY" /\ inp.fail_at # 1
    THEN [g EXCEPT !.trmd = inp.trmd] ELSE g

\* The data source is only looked at under the SPO and ESERIES protocols: a
\* NON_SPO model is explored with one data source.
Relevant(d) == d.protocol = "NON_SPO_MODEL" => d.data_source = "SCREEN"

\* The decoder at rest.
WbdIdle == [pc |-> "idle"]

Init ==
    /\ wbd = WbdIdle
    /\ devc \in [protocol : Protocols,
                 data_source : DataSources,
                 enabled_channels : ChannelLists,
                 limit_frames : 0..MaxFrames,
                 num_frames : {0},
                 channel_entry : {0},
                 wait_event : {"WAIT_NONE"},
                 wait_status : {0},
                 num_channel_bytes : {0},
                 num_header_bytes : {0},
                 num_block_bytes : {0},
                 num_samples : {0},
                 num_block_read : {0},
                 retry_count : {0},
                 close_history : {FALSE}]
    /\ Relevant(devc)
    /\ loc = [pc |-> "stopped", loop_bytes_read |-> 0,
              loop_bytes_available |-> 0, start |-> 0,
              header_reads |-> 0]
    /\ scpi = [cmds |-> <<>>, responding |-> FALSE, stream_len |-> 0,
               stream_pos |-> 0, now |-> 0]
    /\ sess = [events |-> <<>>, running |-> FALSE, stop_requests |-> 0,
               poll_stops |-> 0]
    /\ ghost = [path |-> "none", fault |-> FALSE, delivered |-> 0,
                poll_read_ok |-> FALSE, last_read |-> "none",
                aligned |-> FALSE, wait_entry |-> 0, wait_result |-> "none",
                wait_elapsed |-> 0, trmd |-> "none", rearm_failed |-> FALSE]

----------------------------------------------------------------------------
(* Acquisition start and host stop (driver api) *)

\* dev_acquisition_start: header and meta packets, the cursor on the first
\* enabled channel, arming, then the begin of the first frame.
AcquisitionStart ==
    /\ loc.pc = "stopped"
    /\ UNCHANGED wbd
    /\ \E inp \in CaptureInputsFor(devc) :
          LET d0 == [devc EXCEPT !.channel_entry = 1, !.num_frames = 0]
              cs == capture_start(d0, scpi, inp)
          IN /\ devc' = cs.devc
             /\ scpi' = cs.scpi
             /\ IF cs.ret = SR_OK
                THEN /\ sess' = std_session_send_df_frame_begin(
                                  Emit(Emit([sess EXCEPT !.running = TRUE],
                                            Ev("header", 0)), Ev("meta", 0)))
                     /\ loc' = [loc EXCEPT !.pc = "idle"]
                     /\ ghost' = Armed(ghost, d0, inp)
                ELSE /\ sess' = sess
                     /\ loc' = [loc EXCEPT !.pc = "failed"]
                     /\ ghost' = [ghost EXCEPT !.fault = TRUE]

\* A stop issued by the host between two polls: the open frame is closed and
\* the acquisition is stopped.
HostStop ==
    /\ loc.pc = "idle"
    /\ UNCHANGED wbd
    /\ sess.running
    /\ sess' = dev_acquisition_stop(
                 IF FrameOpen(sess)
                 THEN std_session_send_df_frame_end(
                          [sess EXCEPT !.poll_stops = 0])
                 ELSE [sess EXCEPT !.poll_stops = 0])
    /\ ghost' = [Aborted(ghost, "cancel") EXCEPT
                    !.poll_read_ok = FALSE, !.last_read = "none",
                    !.wait_result = "none", !.wait_elapsed = 0]
    /\ UNCHANGED <<devc, loc, scpi>>

----------------------------------------------------------------------------
(* siglent_sds_receive: entry and dispatch on wait_event *)

\* What a failed wait or a failed channel start does to the session:
\* "return TRUE", nothing is sent.
OnDispatchFailure_Abort(se) == Abort(se)

OnDispatchFailure(se) == se

\* Frames after which the model stops following an acquisition that has no
\* reachable frame limit.
FrameCap == MaxFrames

ReceiveEntry ==
    /\ loc.pc = "idle"
    /\ UNCHANGED wbd
    /\ sess.running
    /\ devc.num_frames < FrameCap
    /\ LET g0 == [ghost EXCEPT !.poll_read_ok = FALSE,
                               !.wait_result = "none", !.wait_elapsed = 0,
                               !.last_read = "none"]
           s0 == [sess EXCEPT !.poll_stops = 0]
       IN CASE devc.wait_event = "WAIT_NONE" ->
                 /\ loc' = [loc EXCEPT !.pc = "block"]
                 /\ ghost' = g0
                 /\ sess' = s0
                 /\ UNCHANGED <<devc, scpi>>
            [] devc.wait_event \in {"WAIT_TRIGGER", "WAIT_STOP"} ->
                 \* siglent_sds_event_wait is entered at an arbitrary phase
                 \* of the wall clock second.
                 \E phase \in 0..(TicksPerSec - 1) :
                    /\ scpi' = [scpi EXCEPT !.now = phase]
                    /\ loc' = [loc EXCEPT !.pc = "wait", !.start = 0]
                    /\ ghost' = [g0 EXCEPT !.wait_entry = phase]
                    /\ sess' = s0
                    /\ UNCHANGED devc
            [] devc.wait_event = "WAIT_BLOCK" ->
                 \E in \in ChannelStartInputs :
                    LET cs == channel_start(devc, scpi, in.send_ok, in.L)
                    IN /\ devc' = cs.devc
                       /\ scpi' = cs.scpi
                       /\ IF cs.ret = SR_OK
                          THEN /\ loc' = [loc EXCEPT !.pc = "block"]
                               /\ ghost' = g0
                               /\ sess' = s0
                          ELSE /\ loc' = Return(loc)
                               /\ ghost' = g0
                               /\ sess' = OnDispatchFailure(s0)

----------------------------------------------------------------------------
(* siglent_sds_event_wait: one iteration of the polling loop *)

\* The loop condition: wait status 1 and the default branch of status 2
\* look at bit 0 of :INR?, the ESERIES stop wait at :TRMD? = "STOP".
WaitReplies == {"fail", "met", "unmet"}

\* "time(NULL) - start >= 3"
TimedOut_Late(sc, start) == Time(sc) - start > TimeoutSeconds

TimedOut(sc, start) == Time(sc) - start >= TimeoutSeconds

EventWaitStep ==
    /\ loc.pc = "wait"
    /\ UNCHANGED wbd
    /\ IF devc.wait_status \notin {1, 2}
       THEN \E in \in ChannelStartInputs :
              LET cs == channel_start(devc, scpi, in.send_ok, in.L)
              IN /\ devc' = cs.devc
                 /\ scpi' = [cs.scpi EXCEPT !.now = 0]
                 /\ loc' = IF cs.ret = SR_OK
                           THEN [loc EXCEPT !.pc = "block"] ELSE Return(loc)
                 /\ ghost' = [ghost EXCEPT !.wait_result = "ok",
                                           !.wait_entry = 0]
                 /\ sess' = sess
       ELSE IF TimedOut(scpi, loc.start)
       THEN \* SR_ERR_TIMEOUT: the caller returns TRUE.
            /\ loc' = Return(loc)
            /\ scpi' = [scpi EXCEPT !.now = 0]
            /\ ghost' = [ghost EXCEPT
                            !.wait_result = "timeout", !.wait_entry = 0,
                            !.wait_elapsed = scpi.now - ghost.wait_entry]
            /\ sess' = OnDispatchFailure(sess)
            /\ devc' = devc
       ELSE \E reply \in WaitReplies :
              CASE reply = "fail" ->
                     /\ loc' = Return(loc)
                     /\ scpi' = [scpi EXCEPT !.now = 0]
                     /\ ghost' = [ghost EXCEPT !.wait_result = "err",
                                               !.wait_entry = 0]
                     /\ sess' = OnDispatchFailure(sess)
                     /\ devc' = devc
                [] reply = "unmet" ->
                     \* g_usleep(s) and the query let the clock advance.
                     /\ \E dt \in {0, 1} : scpi' = [scpi EXCEPT !.now = @ + dt]
                     /\ UNCHANGED <<devc, loc, sess, ghost>>
                [] reply = "met" ->
                     \E in \in ChannelStartInputs :
                     LET d1 == IF devc.wait_status = 2
                               THEN set_wait_event(devc, "WAIT_NONE")
                               ELSE devc
                         cs == channel_start(d1, scpi, in.send_ok, in.L)
                     IN /\ devc' = cs.devc
                        /\ scpi' = [cs.scpi EXCEPT !.now = 0]
                        /\ loc' = IF cs.ret = SR_OK
                                  THEN [loc EXCEPT !.pc = "block"]
                                  ELSE Return(loc)
                        /\ ghost' = [ghost EXCEPT
                                       !.wait_result = "ok",
                                       !.wait_entry = 0]
                        /\ sess' = IF cs.ret = SR_OK THEN sess
                                   ELSE OnDispatchFailure(sess)

----------------------------------------------------------------------------
(* siglent_sds_receive: start of a block of an analog channel *)

\* "if (len == -1)" after siglent_sds_read_header.
HeaderFailed_Never(ret) == FALSE

HeaderFailed(ret) == ret = SR_ERR

BlockBegin ==
    /\ loc.pc = "block"
    /\ UNCHANGED wbd
    /\ CurrentChannel(devc).type = "ANALOG"
    /\ IF devc.num_block_bytes # 0
       THEN /\ loc' = [loc EXCEPT !.pc = "loop"]
            /\ UNCHANGED <<devc, scpi, sess, ghost>>
       ELSE \E begin_ok \in BOOLEAN :
              IF ~begin_ok
              THEN \* sr_scpi_read_begin failed: return TRUE.
                   /\ loc' = Return(loc)
                   /\ UNCHANGED <<devc, scpi, sess, ghost>>
              ELSE \E script \in HeaderScripts(Remaining(scpi)),
                      garbage \in IF scpi.responding /\ scpi.stream_pos = 0
                                  THEN {0} ELSE GarbageLengths :
                     LET hd == read_header(devc, scpi, script, garbage)
                         injected ==
                             /\ script[Len(script)] <= 0
                             /\ Remaining(hd.scpi) > 0
                         g1 == [ghost EXCEPT !.fault = @ \/ injected]
                     IN /\ scpi' = hd.scpi
                        /\ IF hd.ret = 0
                           THEN \* Still reading the header.
                                /\ devc' = hd.devc
                                /\ loc' = Return(loc)
                                /\ sess' = sess
                                /\ ghost' = g1
                           ELSE IF HeaderFailed(hd.ret)
                           THEN \* "Read error, aborting capture."
                                /\ devc' = hd.devc
                                /\ loc' = Return(loc)
                                /\ sess' = Abort(sess)
                                /\ ghost' = Aborted(g1,
                                      IF hd.devc.num_header_bytes
                                            # devc.num_header_bytes
                                      THEN "empty_header" ELSE "header")
                           ELSE /\ devc' = [hd.devc EXCEPT
                                              !.num_block_bytes = 0,
                                              !.num_block_read = 0]
                                /\ loc' = [loc EXCEPT
                                             !.pc = "loop",
                                             !.header_reads =
                                                header_loop(0, script,
                                                            1).reads]
                                /\ sess' = sess
                                /\ ghost' = [g1 EXCEPT
                                               !.delivered = 0,
                                               !.aligned =
                                                  /\ scpi.responding
                                                  /\ scpi.stream_pos = 0]

----------------------------------------------------------------------------
(* siglent_sds_receive: the payload loops *)

\* Head of the outer do-while.
LoopBegin ==
    /\ loc.pc = "loop"
    /\ UNCHANGED wbd
    /\ LET avail == IntDiff(devc.num_samples, devc.num_block_bytes)
       IN IF avail < 0
          THEN \* "Negative waveform length, woops."
               /\ loc' = Return(loc)
               /\ sess' = Abort(sess)
               /\ ghost' = Aborted(ghost, "negative")
          ELSE /\ loc' = [loc EXCEPT !.pc = "payload",
                                     !.header_reads = 0,
                                     !.loop_bytes_read = 0,
                                     !.loop_bytes_available = avail]
               /\ sess' = sess
               /\ ghost' = ghost
    /\ UNCHANGED <<devc, scpi>>

\* The length asked of sr_scpi_read_data (an int parameter).
ReadRequest(d) == IntDiff(d.num_samples, d.num_block_bytes)

\* What the inner loop does when sr_scpi_read_data returned -1.
OnReadError_NoCap(loop_bytes_read, retry_count) ==
    IF loop_bytes_read > 0 THEN "flush" ELSE "retry"

OnReadError(loop_bytes_read, retry_count) ==
    IF loop_bytes_read > 0 THEN "flush"
    ELSE IF retry_count < MaxRetries THEN "retry"
    ELSE "abort"

\* What the inner loop does when the first read of a block returned 2 bytes.
OnEmptyWaveform_Skip(retry_count) == "skip"

OnEmptyWaveform(retry_count) ==
    IF retry_count < MaxRetries THEN "retry" ELSE "skip"

\* Number of samples of the analog packet built from the bytes of one pass
\* of the inner loop.
AnalogSamples_One(loop_bytes_read) == 1

AnalogSamples(loop_bytes_read) == loop_bytes_read

\* "devc->retry_count = 0" after the inner loop.
ResetRetry_Skip(d) == d

ResetRetry(d) == [d EXCEPT !.retry_count = 0]

\* The code after the inner loop: reset of the retry counter, the analog
\* packet, the completion test.  d, se, g are the values after the reads.
AfterInnerLoop(d, sc, se, g, lbr) ==
    LET d1 == ResetRetry(d)
    IN /\ scpi' = sc
       /\ IF lbr = 0
          THEN \* "Abort processing channel": leave the outer loop.
               /\ devc' = d1
               /\ sess' = se
               /\ ghost' = g
               /\ loc' = [loc EXCEPT !.pc = "progress"]
          ELSE /\ sess' = Emit(se, Ev("analog", CurrentChannel(d).index))
               /\ ghost' = [g EXCEPT !.delivered = @ + AnalogSamples(lbr)]
               /\ IF ULessEq(d1.num_samples, d1.num_block_bytes)
                  THEN /\ devc' = [d1 EXCEPT !.num_header_bytes = 0,
                                            !.num_block_bytes = 0]
                       /\ loc' = [loc EXCEPT !.pc = "terminator",
                                             !.loop_bytes_read = lbr]
                  ELSE /\ devc' = d1
                       /\ loc' = [loc EXCEPT !.pc = "loop",
                                             !.loop_bytes_read = lbr]

\* One sr_scpi_read_data call of the inner do-while and what follows it up
\* to the next transport call.
PayloadRead ==
    /\ loc.pc = "payload"
    /\ UNCHANGED wbd
    /\ \E len \in ReadResults(scpi, ReadRequest(devc)) :
         LET sc1 == Consume(scpi, len)
             empty == len = 2 /\ devc.num_block_read = 0
             g1 == [ghost EXCEPT
                      !.last_read = IF len = 0 - 1 THEN "stall"
                                    ELSE IF len = 0 THEN "eof"
                                    ELSE IF empty THEN "empty" ELSE "data",
                      !.fault = @ \/ len = 0 \/ empty]
         IN CASE len = 0 - 1 ->
                   LET todo == OnReadError(loc.loop_bytes_read,
                                           devc.retry_count)
                   IN IF todo = "flush"
                      THEN AfterInnerLoop(devc, sc1, sess, g1,
                                          loc.loop_bytes_read)
                      ELSE IF todo = "retry"
                      THEN /\ devc' = [devc EXCEPT !.retry_count = @ + 1]
                           /\ loc' = Return(loc)
                           /\ scpi' = sc1
                           /\ sess' = sess
                           /\ ghost' = g1
                      ELSE /\ devc' = devc
                           /\ loc' = Return(loc)
                           /\ scpi' = sc1
                           /\ sess' = Abort(sess)
                           /\ ghost' = Aborted(g1, "stall")
              [] len = 0 ->
                   \* "Read zero bytes, aborting capture."
                   /\ devc' = devc
                   /\ loc' = Return(loc)
                   /\ scpi' = sc1
                   /\ sess' = Abort(sess)
                   /\ ghost' = Aborted(g1, "zero")
              [] len = 2 /\ devc.num_block_read = 0 ->
                   IF OnEmptyWaveform(devc.retry_count) = "retry"
                   THEN /\ devc' = set_wait_event(
                                     [devc EXCEPT !.retry_count = @ + 1],
                                     "WAIT_BLOCK")
                        /\ loc' = Return(loc)
                        /\ scpi' = sc1
                        /\ sess' = sess
                        /\ ghost' = g1
                   ELSE AfterInnerLoop(devc, sc1, sess, g1,
                                       loc.loop_bytes_read)
              [] OTHER ->
                   LET lbr == loc.loop_bytes_read + len
                       d1 == [devc EXCEPT !.num_block_bytes = @ + len,
                                          !.num_block_read = @ + 1]
                       g2 == [g1 EXCEPT !.poll_read_ok = TRUE]
                   IN IF lbr < Min(LoopChunk, loc.loop_bytes_available)
                      THEN /\ devc' = d1
                           /\ loc' = [loc EXCEPT !.loop_bytes_read = lbr]
                           /\ scpi' = sc1
                           /\ sess' = sess
                           /\ ghost' = g2
                      ELSE AfterInnerLoop(d1, sc1, sess, g2, lbr)

----------------------------------------------------------------------------
(* siglent_sds_receive: completion of a block *)

\* Session after the read of the line feeds returned len bytes.
OnTerminator(se, len) == IF len # TerminatorBytes THEN Abort(se) ELSE se

BlockComplete ==
    /\ loc.pc = "terminator"
    /\ UNCHANGED wbd
    /\ \E len \in ReadResults(scpi, 3), complete \in BOOLEAN :
         LET se1 == OnTerminator(sess, len)
             g1 == [Aborted(ghost, IF len # TerminatorBytes
                                   THEN "terminator"
                                   ELSE IF ~complete THEN "read_complete"
                                   ELSE "none")
                      EXCEPT !.fault = @ \/ len # TerminatorBytes
                                         \/ ~complete]
         IN /\ scpi' = Consume(scpi, len)
            /\ ghost' = g1
            /\ IF ~complete
               THEN \* "Read should have been completed."
                    /\ sess' = Abort(se1)
                    /\ loc' = Return(loc)
                    /\ devc' = devc
               ELSE /\ sess' = se1
                    /\ loc' = [loc EXCEPT !.pc = "progress"]
                    /\ devc' = [devc EXCEPT !.num_block_read = 0]

----------------------------------------------------------------------------
(* siglent_sds_receive: next channel, next frame or end *)

\* "if (devc->channel_entry->next)"
HasNext_Never(d) == FALSE

HasNext(d) == d.channel_entry < Len(d.enabled_channels)

Progress ==
    /\ loc.pc = "progress"
    /\ UNCHANGED wbd
    /\ loc' = Return(loc)
    /\ IF HasNext(devc)
       THEN \* Proceed to the next channel.
            /\ devc' = set_wait_event(
                         [devc EXCEPT !.channel_entry = @ + 1], "WAIT_BLOCK")
            /\ UNCHANGED <<scpi, sess, ghost>>
       ELSE LET se1 == std_session_send_df_frame_end(sess)
                d1 == [devc EXCEPT !.num_frames = @ + 1]
            IN IF d1.num_frames = d1.limit_frames
               THEN \* Last frame, stop capture.
                    \E send_ok \in BOOLEAN :
                       /\ sess' = dev_acquisition_stop(se1)
                       /\ devc' = d1
                       /\ scpi' = IF /\ d1.protocol = "ESERIES"
                                     /\ d1.data_source = "HISTORY"
                                     /\ d1.close_history
                                     /\ send_ok
                                  THEN Send(scpi, <<":HSMD OFF">>)
                                  ELSE scpi
                       /\ ghost' = [Aborted(ghost, "complete") EXCEPT
                                       !.fault = @ \/ (/\ d1.protocol = "ESERIES"
                                                       /\ d1.data_source = "HISTORY"
                                                       /\ d1.close_history
                                                       /\ ~send_ok)]
               ELSE LET d2 == [d1 EXCEPT !.channel_entry = 1]
                    IN IF d2.protocol = "ESERIES"
                       THEN \E send_ok \in BOOLEAN :
                              IF ~send_ok
                              THEN \* Changing to the next frame failed.
                                   /\ devc' = d2
                                   /\ scpi' = scpi
                                   /\ sess' = Abort(se1)
                                   /\ ghost' = [Aborted(ghost, "fram")
                                                  EXCEPT !.fault = TRUE]
                              ELSE /\ devc' = set_wait_event(d2, "WAIT_BLOCK")
                                   /\ scpi' = Send(scpi, <<"FRAM",
                                                     d2.num_frames + 1>>)
                                   /\ sess' =
                                        std_session_send_df_frame_begin(se1)
                                   /\ ghost' = ghost
                       ELSE \E inp \in CaptureInputsFor(devc) :
                              LET cs == capture_start(d2, scpi, inp)
                              IN /\ devc' = cs.devc
                                 /\ scpi' = cs.scpi
                                 /\ sess' =
                                      std_session_send_df_frame_begin(se1)
                                 /\ ghost' = [Armed(ghost, d2, inp) EXCEPT
                                                !.fault = @ \/ cs.ret # SR_OK,
                                                !.rearm_failed =
                                                    cs.ret # SR_OK]

----------------------------------------------------------------------------
(* siglent_sds_receive: the current channel is a logic channel *)

\* After a fetch that failed devc->dig_buffer is what an earlier fetch left:
\* a stale buffer, which is sent, or no buffer at all, and then reading its
\* length ends the process.
DigBufferStates(outcome) ==
    IF outcome \in DigitalFailures THEN {"stale", "null"} ELSE {"fresh"}

LogicFrame ==
    /\ loc.pc = "block"
    /\ UNCHANGED wbd
    /\ CurrentChannel(devc).type = "LOGIC"
    /\ \E outcome \in DigitalOutcomes :
        \E dig_buffer \in DigBufferStates(outcome) :
         LET sc1 == get_digital_scpi(devc, scpi, outcome)
             g1 == [ghost EXCEPT !.fault = @ \/ outcome \notin {"ok"},
                                 !.last_read = outcome]
         IN IF get_digital_ret(outcome) = 0
            THEN /\ scpi' = sc1
                 /\ ghost' = g1
                 /\ loc' = Return(loc)
                 /\ UNCHANGED <<devc, sess>>
            ELSE IF dig_buffer = "null"
            THEN /\ scpi' = sc1
                 /\ ghost' = Aborted(g1, "crash")
                 /\ loc' = [loc EXCEPT !.pc = "crashed"]
                 /\ UNCHANGED <<devc, sess>>
            ELSE /\ loc' = Return(loc)
                 /\ LET se1 == dev_acquisition_stop(
                                  std_session_send_df_frame_end(
                                    Emit(sess, Ev("logic",
                                                  CurrentChannel(devc).index))))
                         d1 == [devc EXCEPT !.num_frames = @ + 1]
                     IN IF d1.num_frames = d1.limit_frames
                        THEN /\ sess' = dev_acquisition_stop(se1)
                             /\ devc' = d1
                             /\ scpi' = sc1
                             /\ ghost' = Aborted(g1, "complete")
                        ELSE \E inp \in CaptureInputsFor(devc) :
                             LET cs == capture_start(
                                         [d1 EXCEPT !.channel_entry = 1],
                                         sc1, inp)
                             IN /\ devc' = cs.devc
                                /\ scpi' = cs.scpi
                                /\ sess' = std_session_send_df_frame_begin(se1)
                                /\ ghost' = [Armed(g1, d1, inp) EXCEPT
                                               !.fault = @ \/ cs.ret # SR_OK,
                                               !.rearm_failed =
                                                   cs.ret # SR_OK]

----------------------------------------------------------------------------
(* Specification *)

Next ==
    \/ AcquisitionStart
    \/ HostStop
    \/ ReceiveEntry
    \/ EventWaitStep
    \/ BlockBegin
    \/ LoopBegin
    \/ PayloadRead
    \/ BlockComplete
    \/ Progress
    \/ LogicFrame

Spec == Init /\ [][Next]_vars

----------------------------------------------------------------------------
(* Properties *)

\* The acquisition was started and its poll source is gone.
Terminated == loc.pc = "idle" /\ ~sess.running

LastEvent(se) == se.events[Len(se.events)]

IsPayload(e) == e.type \in {"analog", "logic"}

\* evs[i..] is n repetitions of (frame_begin payload+ frame_end) followed by
\* exactly one end.
RECURSIVE FramesThenEnd(_, _, _)
FramesThenEnd(evs, i, n) ==
    IF n = 0
    THEN i = Len(evs) /\ evs[i].type = "end"
    ELSE /\ i <= Len(evs)
         /\ evs[i].type = "frame_begin"
         /\ \E j \in (i + 2)..Len(evs) :
               /\ \A k \in (i + 1)..(j - 1) : IsPayload(evs[k])
               /\ evs[j].type = "frame_end"
               /\ FramesThenEnd(evs, j + 1, n - 1)

\* header meta (frame_begin payload+ frame_end)^n end
WellFormedStream(evs, n) ==
    /\ Len(evs) >= 3
    /\ evs[1].type = "header"
    /\ evs[2].type = "meta"
    /\ FramesThenEnd(evs, 3, n)

\* Number of frames open after evs[1..i], or -1 when a frame_end came without
\* an open frame or a frame_begin inside an open frame.
RECURSIVE FrameDepth(_, _)
FrameDepth(evs, i) ==
    IF i = 0 THEN 0
    ELSE LET before == FrameDepth(evs, i - 1)
         IN IF before < 0 THEN before
            ELSE IF evs[i].type = "frame_begin"
            THEN IF before = 0 THEN 1 ELSE 0 - 1
            ELSE IF evs[i].type = "frame_end"
            THEN IF before = 1 THEN 0 ELSE 0 - 1
            ELSE before

\* C1: an acquisition that completes its frames without error has delivered
\* exactly header, meta, then one (frame_begin, one or more payload events,
\* frame_end) per frame, then a single end.
C1_StreamShape ==
    (Terminated /\ ghost.path = "complete" /\ ~ghost.fault)
        => WellFormedStream(sess.events, devc.num_frames)

\* C2: frame_begin and frame_end alternate in the event stream at all times,
\* and when the acquisition has terminated, on whatever path, as many
\* frame_end as frame_begin events were emitted.
C2_FramesBalanced ==
    /\ FrameDepth(sess.events, Len(sess.events)) >= 0
    /\ Terminated => FrameDepth(sess.events, Len(sess.events)) = 0

\* C3: acquisition stop is requested at most once, never twice in one poll,
\* and exactly once by the time the acquisition has terminated.
C3_StopOnce ==
    /\ sess.stop_requests <= 1
    /\ sess.poll_stops <= 1
    /\ Terminated => sess.stop_requests = 1

\* A read of the payload loop returned -1 in a poll that had read no byte.
StalledPoll ==
    /\ loc.pc = "payload"
    /\ ~ghost.poll_read_ok
    /\ ghost'.last_read = "stall"

\* C4: retry_count stays within 0..5; a poll whose read returns -1 before any
\* byte was read in that poll adds one to retry_count and returns with nothing
\* sent while retry_count < 5, and with retry_count = 5 it sends frame_end,
\* requests stop and leaves retry_count at 5.
C4_RetryCap ==
    /\ [](devc.retry_count \in 0..5)
    /\ [][StalledPoll =>
            IF devc.retry_count < 5
            THEN /\ devc'.retry_count = devc.retry_count + 1
                 /\ loc'.pc = "idle"
                 /\ sess' = sess
            ELSE /\ devc'.retry_count = 5
                 /\ loc'.pc = "idle"
                 /\ ~sess'.running
                 /\ sess'.events = sess.events \o
                       <<Ev("frame_end", 0), Ev("end", 0)>>]_vars

C4_Witness ==
    /\ ghost.path = "stall"
    /\ ghost.last_read = "stall"
    /\ devc.retry_count = 5
    /\ ~sess.running
    /\ ~ghost.poll_read_ok

\* A read of the payload loop returned -1 with no byte read in this pass of
\* the inner loop, below the retry cap.
StalledPass ==
    /\ loc.pc = "payload"
    /\ loc.loop_bytes_read = 0
    /\ ghost'.last_read = "stall"
    /\ devc.retry_count < 5

\* C5 as claimed: a stalled poll adds exactly one to retry_count, and after
\* any poll in which a payload read succeeded retry_count is 0.
C5_ResetAfterRead ==
    /\ [][StalledPass => devc'.retry_count = devc.retry_count + 1]_vars
    /\ []((loc.pc = "idle" /\ ghost.poll_read_ok) => devc.retry_count = 0)

\* C5 as the code has it: a stalled pass below the cap adds exactly one to
\* retry_count; the end of a pass of the inner loop sets it to 0; a poll that
\* read payload bytes and then stalls with nothing left to flush returns with
\* retry_count 1, not 0.
C5_RetryMonotone ==
    [][/\ StalledPass => devc'.retry_count = devc.retry_count + 1
       /\ (loc.pc = "payload" /\ loc'.pc \in {"loop", "terminator", "progress"})
             => devc'.retry_count = 0
       /\ (StalledPass /\ ghost.poll_read_ok)
             => (devc'.retry_count = 1 /\ loc'.pc = "idle")]_vars

C5_Witness ==
    /\ loc.pc = "idle"
    /\ sess.running
    /\ ghost.poll_read_ok
    /\ ghost.last_read = "stall"
    /\ devc.retry_count = 1

\* C6: an acquisition whose transport has not failed and whose current block
\* is being retried after fewer than five stalled reads is not aborted.
C6_StallRecovered ==
    (~ghost.fault /\ devc.retry_count \in 1..4)
        => ghost.path \in {"none", "cancel"}

\* C7: when a block whose header was read from the start of the response
\* completes, the samples of the analog packets sent for it add up to the
\* data length the device declared.
C7_AllSamplesDelivered ==
    (loc.pc = "terminator" /\ ghost.aligned)
        => /\ ghost.delivered = scpi.stream_len
           /\ ghost.delivered = devc.num_samples

C7_Witness ==
    /\ loc.pc = "terminator"
    /\ ghost.aligned
    /\ ghost.delivered = MaxDataLength
    /\ devc.num_block_read = MaxDataLength

BlockInProgress == loc.pc \in {"loop", "payload", "terminator"}

\* C8 as claimed: num_block_bytes <= num_samples while a block is in progress
\* and the negative waveform length branch is never taken.
C8_NegativeUnreachable ==
    /\ BlockInProgress => ULessEq(devc.num_block_bytes, devc.num_samples)
    /\ ghost.path # "negative"

\* C8 as the code has it: num_block_bytes <= num_samples while a block is in
\* progress; the negative waveform length branch is taken only for a data
\* length with bit 31 set, before any payload byte of the block is read.
C8_BlockBytesBounded ==
    /\ BlockInProgress => ULessEq(devc.num_block_bytes, devc.num_samples)
    /\ ghost.path = "negative"
          => (devc.num_samples < 0 /\ devc.num_block_bytes = 0)

C8_Witness ==
    /\ ghost.path = "negative"
    /\ ghost.aligned
    /\ ~ghost.fault
    /\ scpi.stream_len = NegativeLength

\* C9 as claimed: a wait whose condition never appears times out within
\* 3.0 +/- 0.1 s of its entry.
C9_TimeoutAtThreeSeconds ==
    ghost.wait_result = "timeout"
        => /\ 10 * ghost.wait_elapsed >= 29 * TicksPerSec
           /\ 10 * ghost.wait_elapsed <= 31 * TicksPerSec

\* C9 as the code has it: a wait never lasts longer than 3 s, and it times out
\* more than 2 s and at most 3 s after its entry, depending on the phase of the
\* clock second at entry.
C9_TimeoutWindow ==
    /\ loc.pc = "wait" => scpi.now - ghost.wait_entry <= 3 * TicksPerSec
    /\ ghost.wait_result = "timeout"
          => /\ ghost.wait_elapsed > 2 * TicksPerSec
             /\ ghost.wait_elapsed <= 3 * TicksPerSec

C9_Witness ==
    /\ ghost.wait_result = "timeout"
    /\ 10 * ghost.wait_elapsed < 29 * TicksPerSec

\* C10 as claimed: after a wait timed out the acquisition is aborted: the frame
\* is closed, end was sent and the poll source is gone.
C10_TimeoutAborts ==
    ghost.wait_result = "timeout"
        => /\ ~sess.running
           /\ LastEvent(sess).type = "end"
           /\ ~FrameOpen(sess)

\* C10 as the code has it: a wait that times out makes the poll return with
\* nothing sent and the device context unchanged: the frame stays open, the
\* source stays subscribed and the next poll waits for the same event again.
C10_TimeoutReturns ==
    /\ [][(loc.pc = "wait" /\ ghost'.wait_result = "timeout")
             => (sess' = sess /\ devc' = devc /\ loc'.pc = "idle")]_vars
    /\ [](ghost.wait_result = "timeout"
             => /\ sess.running
                /\ FrameOpen(sess)
                /\ devc.wait_event \in {"WAIT_TRIGGER", "WAIT_STOP"})

C10_Witness ==
    /\ ghost.wait_result = "timeout"
    /\ loc.pc = "idle"
    /\ sess.running
    /\ devc.wait_event = "WAIT_STOP"

\* A block is being read: header, payload or terminator.
ReadingBlock == loc.pc \in {"block", "loop", "payload", "terminator"}

\* C11: while wait_status is 2 no block header or payload is read: a poll
\* entered with wait_status 2 performs the stop wait first, and the wait
\* leaves wait_status at 1 when it succeeds.
C11_StopAwaited == ReadingBlock => devc.wait_status # 2

\* The payload events one frame carries for channel list chs: one entry per
\* enabled channel, in the order of the list.
ExpectedPayload(chs) ==
    [i \in 1..Len(chs) |->
        Ev(IF chs[i].type = "ANALOG" THEN "analog" ELSE "logic", chs[i].index)]

\* evs[i..] keeps the payload order exp in every frame; k is the number of
\* payload events of the current frame before evs[i] (-1 outside a frame).
RECURSIVE PayloadInOrder(_, _, _, _)
PayloadInOrder(evs, i, k, exp) ==
    IF i > Len(evs) THEN TRUE
    ELSE IF evs[i].type = "frame_begin" THEN PayloadInOrder(evs, i + 1, 0, exp)
    ELSE IF evs[i].type = "frame_end"
    THEN k = Len(exp) /\ PayloadInOrder(evs, i + 1, 0 - 1, exp)
    ELSE IF IsPayload(evs[i])
    THEN /\ k >= 0
         /\ k < Len(exp)
         /\ evs[i] = exp[k + 1]
         /\ PayloadInOrder(evs, i + 1, k + 1, exp)
    ELSE PayloadInOrder(evs, i + 1, k, exp)

IsFrameSelect(cmd) == Len(cmd) = 2 /\ cmd[1] = "FRAM"

\* The frame numbers selected by the commands sent after the first one (the
\* first command of an ESERIES history arming, :HSMD ON or :FRAM 10000000,
\* precedes the reading of the frame count).
FrameSelects(cmds) ==
    LET sel == SelectSeq(SubSeq(cmds, 2, Len(cmds)), IsFrameSelect)
    IN [i \in 1..Len(sel) |-> sel[i][2]]

EseriesHistory(d) == d.protocol = "ESERIES" /\ d.data_source = "HISTORY"

\* An acquisition that was started and has met no transport failure and no
\* abort.
Undisturbed ==
    /\ loc.pc \notin {"stopped", "failed"}
    /\ ~ghost.fault
    /\ ghost.path \in {"none", "complete"}

\* C13: in an ESERIES history acquisition the frame selects sent after the
\* frame count was read are 1, 2, ... in this order, frame k is selected after
\* the frame_end of frame k - 1 and before its blocks are read, and the
\* acquisition completes with as many frame_begin / frame_end pairs as the
\* device reported frames.
C13_FrameSelects ==
    (EseriesHistory(devc) /\ Undisturbed)
        => LET sel == FrameSelects(scpi.cmds)
           IN /\ sel = [i \in 1..Len(sel) |-> i]
              /\ Count(sess.events, "frame_end") = devc.num_frames
              /\ Len(sel) = IF ghost.path = "complete" THEN devc.num_frames
                            ELSE devc.num_frames + 1
              /\ ghost.path = "complete"
                    => /\ devc.num_frames = devc.limit_frames
                       /\ Count(sess.events, "frame_begin") = devc.limit_frames

HistoryCloses(cmds) ==
    Cardinality({i \in DOMAIN cmds : cmds[i] = <<":HSMD OFF">>})

\* C14: :HSMD OFF is sent at most once, only by an ESERIES history acquisition
\* whose last frame has completed and whose :TRMD? reply at arming was not
\* "STOP", and every such acquisition sends it.
C14_HistoryClosed ==
    /\ HistoryCloses(scpi.cmds) <= 1
    /\ EseriesHistory(devc) /\ loc.pc \notin {"stopped", "failed"}
          => (devc.close_history <=> ghost.trmd # "STOP")
    /\ HistoryCloses(scpi.cmds) = 1
          => /\ EseriesHistory(devc)
             /\ devc.num_frames = devc.limit_frames
             /\ ghost.trmd # "STOP"
    /\ (EseriesHistory(devc) /\ Undisturbed /\ ghost.path = "complete"
            /\ ghost.trmd # "STOP")
          => HistoryCloses(scpi.cmds) = 1

\* A poll is about to read the header of a response that declares data
\* length 0, and the header read is not cut short.
EmptyHeaderRead ==
    /\ loc.pc = "block"
    /\ scpi.responding /\ scpi.stream_pos = 0 /\ scpi.stream_len = 0
    /\ devc'.num_header_bytes = devc.num_header_bytes + SIGLENT_HEADER_SIZE

\* The first read of a block returned exactly 2 bytes.
EmptyWaveformRead == loc.pc = "payload" /\ ghost'.last_read = "empty"

\* C15 as claimed: a header that declares data length 0 does not abort the
\* acquisition before the channel read has been retried 5 times.
C15_EmptyHeaderRetried ==
    ~(ghost.path = "empty_header" /\ devc.retry_count < 5)

\* C15 as the code has it: a header that declares data length 0 aborts the
\* acquisition in the poll that reads it, with frame_end and end and no
\* retry; the 5 retries followed by skipping the channel are what happens
\* when the first payload read of a block returns exactly 2 bytes.
C15_EmptyHeaderAborts ==
    /\ [][EmptyHeaderRead
             => /\ sess'.events
                     = sess.events \o <<Ev("frame_end", 0), Ev("end", 0)>>
                /\ ~sess'.running
                /\ loc'.pc = "idle"
                /\ devc'.retry_count = devc.retry_count
                /\ devc'.wait_event = devc.wait_event]_vars
    /\ [][EmptyWaveformRead
             => /\ sess' = sess
                /\ IF devc.retry_count < 5
                   THEN /\ devc'.retry_count = devc.retry_count + 1
                        /\ devc'.wait_event = "WAIT_BLOCK"
                        /\ loc'.pc = "idle"
                   ELSE /\ devc'.retry_count = 0
                        /\ loc'.pc = "progress"]_vars

C15_Witness ==
    /\ ghost.path = "empty_header"
    /\ ~ghost.fault
    /\ devc.retry_count = 0
    /\ ~sess.running
    /\ LastEvent(sess).type = "end"

----------------------------------------------------------------------------
(* Waveform block decoder: siglent_sds_get_digital and the analog          *)
(* conversion of siglent_sds_receive, followed byte by byte                *)

\* Largest number of raw bytes a logic channel delivers.
MaxRawBytes == 1
\* Largest memory_depth_digital.
MaxDepth == 8
\* Largest number of payload bytes converted into one analog packet.
MaxLoopBytes == 2

\* Bytes found in a raw logic stream (0x01, 0x80, 0xA5).
RawValues == {1, 128, 165}

\* Bytes found in an analog payload (0, 25, 50, -25, -128).
SampleValues == {0, 25, 50, 231, 128}

\* The sets of enabled logic channels explored: the logic branch of the
\* handler runs for an entry of enabled_channels, so one is enabled at least.
LogicChannelSets == { {0}, {9}, {0, 1}, {0, 9} }

\* Bit k of v.
Bit(v, k) == (v \div (2 ^ k)) % 2

\* "tmp_value |= 1UL << channel_index"
SetBit(v, k) == IF Bit(v, k) = 1 THEN v ELSE v + 2 ^ k

\* The enabled logic channels in the order of sdi->channels.
RECURSIVE InChannelOrder(_)
InChannelOrder(S) ==
    IF S = {} THEN <<>>
    ELSE LET c == CHOOSE x \in S : \A y \in S : x <= y
         IN <<c>> \o InChannelOrder(S \ {c})

\* A call of siglent_sds_get_digital: chans the enabled logic channels,
\* depth is memory_depth_digital, raw[c] the bytes channel c delivers after
\* the 15 header bytes.
DigitalCalls ==
    UNION { UNION { [pc : {"channels"},
                    chans : {S},
                    todo : {InChannelOrder(S)},
                    depth : 0..MaxDepth,
                    raw : [S -> [1..n -> RawValues]],
                    len : {0},
                    data_low_channels : {<<>>},
                    data_high_channels : {<<>>},
                    low_channels : {FALSE},
                    high_channels : {FALSE},
                    overread : {FALSE}]
                   : n \in 0..MaxRawBytes }
            : S \in LogicChannelSets }

\* What a read of buffdata beyond the bytes received can give: any byte, or
\* the end of the process (Crashed).
Crashed == 0 - 1

OverreadOutcomes == RawValues \cup {Crashed}

\* The accumulator after the bits of one channel were added: entry i holds,
\* for sample i - 1, the bits of the channels processed so far.
\* acc is the accumulator before, sample(cur) byte cur of buffdata, and
\* beyond the bytes buffdata holds the byte the read happens to give.
Accumulate(acc, depth, channel_index, buffdata, beyond) ==
    [i \in 1..(8 * depth) |->
        LET samples_index == i - 1
            sample(cur) == IF cur < Len(buffdata)
                           THEN buffdata[cur + 1] ELSE beyond
            tmp_value == IF Len(acc) <= samples_index THEN 0 ELSE acc[i]
        IN IF Bit(sample(samples_index \div 8), samples_index % 8) = 1
           THEN SetBit(tmp_value, channel_index)
           ELSE tmp_value]

\* One pass of the loop over sdi->channels for an enabled logic channel.
DigitalChannel ==
    /\ wbd.pc = "channels"
    /\ wbd.todo # <<>>
    /\ UNCHANGED <<devc, loc, scpi, sess, ghost>>
    /\ LET ch == Head(wbd.todo)
           buffdata == wbd.raw[ch]
           over == wbd.depth > Len(buffdata)
       IN \E outcome \in IF over THEN OverreadOutcomes ELSE {0} :
            IF outcome = Crashed
            THEN wbd' = [wbd EXCEPT !.pc = "crashed", !.overread = TRUE]
            ELSE LET w1 == [wbd EXCEPT !.todo = Tail(@),
                                       !.len = Len(buffdata),
                                       !.overread = @ \/ over]
                 IN IF ch < 8
                    THEN wbd' = [w1 EXCEPT
                                   !.data_low_channels =
                                       Accumulate(@, wbd.depth, ch,
                                                  buffdata, outcome),
                                   !.low_channels = @ \/ wbd.depth > 0]
                    ELSE wbd' = [w1 EXCEPT
                                   !.data_high_channels =
                                       Accumulate(@, wbd.depth, ch - 8,
                                                  buffdata, outcome),
                                   !.high_channels = @ \/ wbd.depth > 0]

\* "Combining the lower and higher channel buffers into one buffer": byte
\* 2 * index is the low byte of word index, byte 2 * index + 1 the high byte.
Combine(w) ==
    [i \in 1..(2 * w.depth) |->
        LET index == (i - 1) \div 2
        IN IF (i - 1) % 2 = 0
           THEN IF w.low_channels THEN w.data_low_channels[index + 1] ELSE 0
           ELSE IF w.high_channels THEN w.data_high_channels[index + 1]
                ELSE 0]

\* The end of siglent_sds_get_digital: dig_buffer is built and the length of
\* the last read, less the header, is returned.
DigitalCombine ==
    /\ wbd.pc = "channels"
    /\ wbd.todo = <<>>
    /\ UNCHANGED <<devc, loc, scpi, sess, ghost>>
    /\ wbd' = [pc |-> "returned", chans |-> wbd.chans, depth |-> wbd.depth,
               raw |-> wbd.raw, overread |-> wbd.overread,
               ret |-> wbd.len, dig_buffer |-> Combine(wbd)]

\* The caller: no packet when get_digital returned 0, else one logic packet
\* that carries dig_buffer.
LogicPacket ==
    /\ wbd.pc = "returned"
    /\ UNCHANGED <<devc, loc, scpi, sess, ghost>>
    /\ IF wbd.ret = 0
       THEN wbd' = [pc |-> "skipped", chans |-> wbd.chans,
                    depth |-> wbd.depth, raw |-> wbd.raw,
                    overread |-> wbd.overread, packets |-> <<>>]
       ELSE wbd' = [pc |-> "sent", chans |-> wbd.chans, depth |-> wbd.depth,
                    raw |-> wbd.raw, overread |-> wbd.overread,
                    packets |-> << [length |-> Len(wbd.dig_buffer),
                                    unitsize |-> 2,
                                    data |-> wbd.dig_buffer] >>]

\* "g_array_index(data, int8_t, i)": a payload byte read as a signed 8 bit
\* value.
Int8_Unsigned(b) == b

Int8(b) == IF b >= 128 THEN b - 256 ELSE b

\* "voltage = (float)raw / 25; voltage = (vdiv * voltage) - offset", given
\* in units of 1/25 V so that it stays an integer for integer vdiv and offset.
Voltage(vdiv, offset, b) == vdiv * Int8(b) - 25 * offset

\* A conversion of loop_bytes_read payload bytes of channel ch: vdiv and
\* vert_offset are the per channel settings of the device context
\* (vdiv[i + 1] belongs to channel index i).
AnalogConversions ==
    UNION { [pc : {"convert"},
             ch : 0..1,
             vdiv : [1..2 -> {1, 2}],
             vert_offset : [1..2 -> {0, 1}],
             buffer : [1..n -> SampleValues]]
            : n \in 1..MaxLoopBytes }

\* The analog packet built from the buffer.
AnalogDecode ==
    /\ wbd.pc = "convert"
    /\ UNCHANGED <<devc, loc, scpi, sess, ghost>>
    /\ LET vdiv == wbd.vdiv[wbd.ch + 1]
           offset == wbd.vert_offset[wbd.ch + 1]
           float_data == [i \in 1..Len(wbd.buffer) |->
                             Voltage(vdiv, offset, wbd.buffer[i])]
       IN wbd' = [wbd EXCEPT !.pc = "converted"]
                    @@ [packets |-> << [channel |-> wbd.ch,
                                        num_samples |-> Len(float_data),
                                        data |-> float_data] >>]

\* The decoders on their own: one call of siglent_sds_get_digital with its
\* caller, or one analog conversion, on every input within the bounds.
InitDecoder ==
    /\ wbd \in DigitalCalls \cup AnalogConversions
    /\ devc = [protocol |-> "SPO_MODEL"]
    /\ loc = [pc |-> "decoder"]
    /\ scpi = [cmds |-> <<>>]
    /\ sess = [events |-> <<>>]
    /\ ghost = [path |-> "none"]

NextDecoder ==
    \/ DigitalChannel
    \/ DigitalCombine
    \/ LogicPacket
    \/ AnalogDecode

SpecDecoder == InitDecoder /\ [][NextDecoder]_vars

\* ---------------------------------------------------------------------
\* Properties of the decoders (checked under SpecDecoder).

\* A call of siglent_sds_get_digital and its caller have come to an end.
DigitalDone ==
    /\ "chans" \in DOMAIN wbd
    /\ wbd.pc \in {"sent", "skipped", "crashed"}

\* The number of bytes each channel delivered after its 15 header bytes.
BytesPerChannel == Len(wbd.raw[CHOOSE c \in wbd.chans : TRUE])

\* The 16 bit words of the logic packet, none if no packet was sent.
EmittedWords ==
    IF wbd.pc = "sent"
    THEN LET data == wbd.packets[1].data
         IN [s \in 1..(Len(data) \div 2) |->
                data[2 * s - 1] + 256 * data[2 * s]]
    ELSE <<>>

\* C16: a call of siglent_sds_get_digital in which every enabled logic
\* channel delivers N bytes emits exactly 8 * N sample words, and bit k of
\* word s is bit (s mod 8) of byte (s div 8) of channel k if channel k is
\* enabled, and 0 if it is not.
C16_BitPlaning ==
    DigitalDone =>
        /\ wbd.pc # "crashed"
        /\ Len(EmittedWords) = 8 * BytesPerChannel
        /\ \A s \in 0..(8 * BytesPerChannel - 1) : \A k \in 0..15 :
              Bit(EmittedWords[s + 1], k) =
                  IF k \in wbd.chans
                  THEN Bit(wbd.raw[k][(s \div 8) + 1], s % 8)
                  ELSE 0

\* C17: the logic payload is one logic packet of unit size 2 that holds
\* memory_depth_digital words (2 * memory_depth_digital bytes), whatever the
\* set of enabled logic channels, and building it reads no byte beyond
\* those a channel delivered.
C17_LogicPacketShape ==
    DigitalDone =>
        /\ wbd.pc = "sent"
        /\ Len(wbd.packets) = 1
        /\ wbd.packets[1].unitsize = 2
        /\ wbd.packets[1].length = 2 * wbd.depth
        /\ ~wbd.overread

\* An analog conversion has come to an end.
AnalogDone ==
    /\ "buffer" \in DOMAIN wbd
    /\ wbd.pc = "converted"

\* A byte as a two's complement 8 bit number.
Signed8(b) == ((b + 128) % 256) - 128

\* C18: the analog packet holds one sample per payload byte, in the order
\* of the bytes, and sample i is vdiv * (raw / 25) - offset for raw the
\* byte read as a signed 8 bit number and vdiv, offset the settings of the
\* channel the block belongs to (the samples are given in units of 1/25 V:
\* vdiv * raw - 25 * offset).
C18_AnalogDecode ==
    AnalogDone =>
        /\ Len(wbd.packets) = 1
        /\ wbd.packets[1].channel = wbd.ch
        /\ wbd.packets[1].num_samples = Len(wbd.buffer)
        /\ Len(wbd.packets[1].data) = Len(wbd.buffer)
        /\ \A i \in 1..Len(wbd.buffer) :
              wbd.packets[1].data[i] =
                  wbd.vdiv[wbd.ch + 1] * Signed8(wbd.buffer[i])
                      - 25 * wbd.vert_offset[wbd.ch + 1]
        /\ (wbd.vdiv[wbd.ch + 1] = 1 /\ wbd.vert_offset[wbd.ch + 1] = 0) =>
              \A i \in 1..Len(wbd.buffer) :
                  /\ wbd.buffer[i] = 25 => wbd.packets[1].data[i] = 25
                  /\ wbd.buffer[i] = 231 => wbd.packets[1].data[i] = 0 - 25
                  /\ wbd.buffer[i] = 50 => wbd.packets[1].data[i] = 50
                  /\ wbd.buffer[i] = 0 => wbd.packets[1].data[i] = 0

\* A block of the second channel, whose settings differ from those of the
\* first, with a negative sample followed by a positive one, was converted.
C18_Witness ==
    /\ AnalogDone
    /\ wbd.ch = 1
    /\ wbd.vdiv[1] # wbd.vdiv[2]
    /\ wbd.vert_offset[1] # wbd.vert_offset[2]
    /\ Len(wbd.buffer) = 2
    /\ wbd.buffer[1] = 231
    /\ wbd.buffer[2] = 50

\* ---------------------------------------------------------------------
\* Properties of the header phase.

\* The handler is about to read the header of a block.
AtHeader ==
    /\ loc.pc = "block"
    /\ devc.num_block_bytes = 0
    /\ CurrentChannel(devc).type = "ANALOG"

\* The bytes taken from the response of the device in this step.
Taken == Remaining(scpi) - Remaining(scpi')

WaitDone ==
    /\ loc.pc = "wait"
    /\ ghost'.wait_result = "ok"

\* This step is the entry of a poll (not a stop issued by the host).
PollEntry(event) ==
    /\ loc.pc = "idle"
    /\ sess.running
    /\ devc.num_frames < FrameCap
    /\ devc.wait_event = event
    /\ sess'.stop_requests = sess.stop_requests

\* What siglent_sds_channel_start leaves when it succeeds: the poll goes on
\* to the block with no byte read yet.
Started ==
    /\ loc'.pc = "block"
    /\ devc'.wait_event = "WAIT_NONE"
    /\ devc'.wait_status = 1
    /\ devc'.num_header_bytes = 0
    /\ devc'.num_block_bytes = 0
    /\ devc'.channel_entry = devc.channel_entry
    /\ IF FetchCmd(devc) # <<>>
       THEN /\ scpi'.cmds[Len(scpi'.cmds)] = FetchCmd(devc)
            /\ scpi'.responding
            /\ scpi'.stream_pos = 0
       ELSE /\ scpi'.cmds = scpi.cmds
            /\ Remaining(scpi') = Remaining(scpi)

\* What is left when the send of siglent_sds_channel_start fails: the poll
\* returns, the counters and the session are as before, and wait_event is
\* WAIT_NONE only if the stop wait has set it.
StartFailed ==
    /\ FetchCmd(devc) # <<>>
    /\ loc'.pc = "idle"
    /\ devc'.wait_event = IF loc.pc = "wait" /\ devc.wait_status = 2
                          THEN "WAIT_NONE" ELSE devc.wait_event
    /\ devc'.num_header_bytes = devc.num_header_bytes
    /\ devc'.num_block_bytes = devc.num_block_bytes
    /\ scpi'.cmds = scpi.cmds
    /\ Remaining(scpi') = Remaining(scpi)
    /\ sess'.events = sess.events

\* A poll entered with wait_event WAIT_NONE goes to the block at once.
NoDispatch ==
    /\ loc'.pc = "block"
    /\ devc' = devc
    /\ scpi' = scpi

\* C20 as stated: when wait_event is WAIT_TRIGGER or WAIT_STOP and the wait
\* succeeds, or wait_event is WAIT_BLOCK, siglent_sds_channel_start runs
\* once before any read and leaves wait_event WAIT_NONE, wait_status 1 and
\* the block counters 0; when wait_event is WAIT_NONE there is no wait and
\* no channel start.
C20_DispatchStarts ==
    [][/\ (WaitDone \/ PollEntry("WAIT_BLOCK")) => Started
       /\ PollEntry("WAIT_NONE") => NoDispatch]_vars

\* C20, amended: as above when the send of siglent_sds_channel_start
\* succeeds or nothing is to be sent; when the send fails the poll returns
\* with nothing read and nothing reset.
C20_Dispatch ==
    [][/\ (WaitDone \/ PollEntry("WAIT_BLOCK")) => (Started \/ StartFailed)
       /\ (PollEntry("WAIT_TRIGGER") \/ PollEntry("WAIT_STOP")) =>
             /\ loc'.pc = "wait"
             /\ devc' = devc
       /\ PollEntry("WAIT_NONE") => NoDispatch]_vars

\* A stop wait of an ESERIES device succeeded and the channel was started.
C20_Witness ==
    /\ loc.pc = "block"
    /\ ghost.wait_result = "ok"
    /\ devc.protocol = "ESERIES"
    /\ devc.data_source = "READ_ONLY"
    /\ devc.wait_event = "WAIT_NONE"
    /\ devc.wait_status = 1
    /\ devc.num_header_bytes = 0
    /\ devc.num_block_bytes = 0
    /\ scpi.responding
    /\ scpi.stream_pos = 0

----------------------------------------------------------------------------
(* siglent_sds_capture_start and siglent_sds_channel_start on their own *)

\* The device contexts in which the two functions are called: any protocol
\* and data source, the cursor on any entry of the list, any wait event left
\* by the poll before (WAIT_STOP is only ever set under ESERIES), block
\* counters at rest or in use.
CallContexts ==
    { d \in [protocol : Protocols,
             data_source : DataSources,
             enabled_channels : ChannelLists,
             limit_frames : 0..MaxFrames,
             num_frames : 0..1,
             channel_entry : 1..2,
             wait_event : {"WAIT_NONE", "WAIT_TRIGGER", "WAIT_BLOCK",
                           "WAIT_STOP"},
             wait_status : {1, 2},
             num_channel_bytes : {0},
             num_header_bytes : {0, SIGLENT_HEADER_SIZE},
             num_block_bytes : {0, 1},
             num_samples : {0},
             num_block_read : {0},
             retry_count : {0, 1},
             close_history : {FALSE}] :
        /\ Relevant(d)
        /\ d.channel_entry <= Len(d.enabled_channels)
        /\ (d.wait_event = "WAIT_STOP") =>
               (d.wait_status = 2 /\ d.protocol = "ESERIES")
        /\ (d.wait_event \in {"WAIT_TRIGGER", "WAIT_BLOCK"}) =>
               (d.wait_status = 1)
        /\ (d.num_block_bytes = 1) <=> (d.num_header_bytes # 0)
        /\ (d.retry_count = 1) => (d.wait_event = "WAIT_BLOCK") }

\* One call of siglent_sds_capture_start: wbd keeps the replies of the
\* device, the context before the call and the value returned.
CaptureStartCall ==
    /\ wbd.pc = "capture_start"
    /\ LET cs == capture_start(devc, scpi, wbd.inp)
       IN /\ devc' = cs.devc
          /\ scpi' = cs.scpi
          /\ wbd' = [pc |-> "captured", inp |-> wbd.inp, before |-> devc,
                     ret |-> cs.ret]
    /\ UNCHANGED <<loc, sess, ghost>>

\* One call of siglent_sds_channel_start.
ChannelStartCall ==
    /\ wbd.pc = "channel_start"
    /\ LET cs == channel_start(devc, scpi, wbd.inp.send_ok, wbd.inp.L)
       IN /\ devc' = cs.devc
          /\ scpi' = cs.scpi
          /\ wbd' = [pc |-> "started", inp |-> wbd.inp, before |-> devc,
                     ret |-> cs.ret]
    /\ UNCHANGED <<loc, sess, ghost>>

InitCalls ==
    /\ devc \in CallContexts
    /\ wbd \in [pc : {"capture_start"}, inp : CaptureInputsFor(devc)]
                 \cup [pc : {"channel_start"}, inp : ChannelStartInputs]
    /\ loc = [pc |-> "call"]
    /\ scpi = [cmds |-> <<>>, responding |-> FALSE, stream_len |-> 0,
               stream_pos |-> 0, now |-> 0]
    /\ sess = [events |-> <<>>]
    /\ ghost = [path |-> "none"]

NextCalls ==
    \/ CaptureStartCall
    \/ ChannelStartCall

SpecCalls == InitCalls /\ [][NextCalls]_vars

\* ---------------------------------------------------------------------
\* Properties of arming and of the channel start (checked under SpecCalls).

\* A call of siglent_sds_capture_start under this protocol and data source
\* has returned.
Captured(protocol, source) ==
    /\ wbd.pc = "captured"
    /\ wbd.before.protocol = protocol
    /\ wbd.before.data_source = source

\* The call left the wait event and the wait status as they were.
WaitUnchanged ==
    /\ devc.wait_event = wbd.before.wait_event
    /\ devc.wait_status = wbd.before.wait_status

\* C21: arming an SPO model with data source SCREEN sends ARM and asks
\* :INR?; DEVICE_STATE_TRIG_RDY gives wait_event WAIT_TRIGGER and
\* wait_status 1, DEVICE_STATE_DATA_TRIG_RDY gives WAIT_BLOCK and 1, any
\* other value fails with wait_event and wait_status unchanged; when the
\* send of ARM or the query fails the call fails with wait_event unchanged.
C21_ArmScreen ==
    Captured("SPO_MODEL", "SCREEN") =>
        /\ wbd.inp.fail_at # 1 => scpi.cmds = <<<<"ARM">>>>
        /\ wbd.inp.fail_at = 1 => scpi.cmds = <<>>
        /\ (wbd.inp.fail_at = 0 /\ wbd.inp.inr = DEVICE_STATE_TRIG_RDY) =>
              /\ wbd.ret = SR_OK
              /\ devc.wait_event = "WAIT_TRIGGER"
              /\ devc.wait_status = 1
        /\ (wbd.inp.fail_at = 0
                /\ wbd.inp.inr = DEVICE_STATE_DATA_TRIG_RDY) =>
              /\ wbd.ret = SR_OK
              /\ devc.wait_event = "WAIT_BLOCK"
              /\ devc.wait_status = 1
        /\ (wbd.inp.fail_at = 0
                /\ wbd.inp.inr \notin {DEVICE_STATE_TRIG_RDY,
                                       DEVICE_STATE_DATA_TRIG_RDY}) =>
              /\ wbd.ret = SR_ERR
              /\ WaitUnchanged
        /\ wbd.inp.fail_at # 0 =>
              /\ wbd.ret = SR_ERR
              /\ WaitUnchanged

\* The device answered a value that is neither of the two ready states to
\* an SPO model that was waiting for a block with wait status 1.
C21_Witness ==
    /\ Captured("SPO_MODEL", "SCREEN")
    /\ wbd.inp.fail_at = 0
    /\ wbd.inp.inr = DEVICE_STATE_OTHER
    /\ wbd.ret = SR_ERR
    /\ wbd.before.wait_event = "WAIT_BLOCK"
    /\ devc.wait_event = "WAIT_BLOCK"
    /\ scpi.cmds = <<<<"ARM">>>>

\* C22: arming an SPO model with data source HISTORY or READ_ONLY ends
\* with wait_event WAIT_STOP and wait_status 2 (for HISTORY after FRAM
\* num_frames + 1 was sent and the channel started), so that the next poll
\* takes the stop wait.
C22_ArmStop ==
    (/\ Captured("SPO_MODEL", "HISTORY") \/ Captured("SPO_MODEL", "READ_ONLY")
     /\ wbd.ret = SR_OK) =>
        /\ devc.wait_event = "WAIT_STOP"
        /\ devc.wait_status = 2
        /\ wbd.before.data_source = "HISTORY" =>
              /\ Len(scpi.cmds) >= 2
              /\ scpi.cmds[2] = <<"FRAM", wbd.before.num_frames + 1>>

\* ---------------------------------------------------------------------
\* Properties of the progression to the next channel and the next frame.

\* The handler has completed a block (payload read in full, line feeds
\* found, read complete) and is about to move on.
BlockDone ==
    /\ loc.pc = "progress"
    /\ ghost.path = "none"
    /\ ghost.last_read = "data"

\* The number of stop requests made in this step.
StopsRequested == sess'.stop_requests - sess.stop_requests

\* The number of packets of this type sent in this step.
Sent(type) == Count(sess'.events, type) - Count(sess.events, type)

\* C23: after a block completed, if the current channel is not the last
\* of enabled_channels the cursor advances by one entry, wait_event becomes
\* WAIT_BLOCK, num_frames is unchanged and no frame_end is sent; if it is
\* the last, one frame_end is sent, num_frames grows by one, and the
\* acquisition is stopped if and only if num_frames has reached
\* limit_frames, else the cursor is back on the first entry and one
\* frame_begin is sent.
C23_Progression ==
    [][BlockDone =>
         IF devc.channel_entry < Len(devc.enabled_channels)
         THEN /\ devc'.channel_entry = devc.channel_entry + 1
              /\ devc'.wait_event = "WAIT_BLOCK"
              /\ devc'.num_frames = devc.num_frames
              /\ sess' = sess
         ELSE /\ Sent("frame_end") = 1
              /\ devc'.num_frames = devc.num_frames + 1
              /\ (StopsRequested > 0) <=>
                     (devc'.num_frames = devc.limit_frames)
              /\ StopsRequested = 0 =>
                    /\ devc'.channel_entry = 1
                    /\ Sent("frame_begin") = 1
                    /\ sess'.events[Len(sess'.events)]
                           = Ev("frame_begin", 0)]_vars

\* The poll has met an error by the end of this step: a transport call
\* failed or gave something unexpected, or an abort branch was taken.
ErrorSeen ==
    \/ ghost'.fault
    \/ ghost'.path \notin {"none", "complete"}

\* C24: the handler requests stop only when an error occurred or when the
\* number of completed frames has just reached limit_frames; completing the
\* logic payload of a frame that is not the last one requests no stop.
C24_StopOnlyAtLimit ==
    [][(loc.pc \notin {"idle", "stopped"} /\ StopsRequested > 0) =>
          \/ ErrorSeen
          \/ /\ devc'.num_frames = devc.num_frames + 1
             /\ devc'.num_frames = devc.limit_frames]_vars

\* ---------------------------------------------------------------------
\* Properties of the completion of a block.

\* In this step the read of the line feeds gave something else than two
\* bytes, or sr_scpi_read_complete was false.
CompletionFailed ==
    /\ loc.pc = "terminator"
    /\ ghost.path = "none"
    /\ ghost'.path \in {"terminator", "read_complete"}

\* C25: when the read of the line feeds does not give two bytes, or the
\* read is not complete, the poll sends one frame_end, requests stop and
\* ends; afterwards the cursor and num_frames stay as they are and
\* no packet and no command is sent.
C25_CompletionAborts ==
    [][/\ CompletionFailed =>
             /\ Sent("frame_end") = 1
             /\ StopsRequested = 1
             /\ loc'.pc = "idle"
             /\ devc'.channel_entry = devc.channel_entry
             /\ devc'.num_frames = devc.num_frames
       /\ ghost.path \in {"terminator", "read_complete"} =>
             /\ devc'.channel_entry = devc.channel_entry
             /\ devc'.num_frames = devc.num_frames
             /\ sess'.events = sess.events
             /\ scpi'.cmds = scpi.cmds]_vars

\* ---------------------------------------------------------------------
\* Properties of the empty waveform retry.

\* In this step the first payload read of a block gave exactly two bytes.
EmptyWaveform ==
    /\ loc.pc = "payload"
    /\ ghost'.last_read = "empty"

\* The poll that follows a retry starts the same channel again.
RetryPoll ==
    /\ PollEntry("WAIT_BLOCK")
    /\ ghost.last_read = "empty"
    /\ devc.retry_count > 0

\* C26: when the first payload read of a block gives exactly two bytes,
\* then while retry_count is below 5 the poll increments retry_count, sets
\* wait_event to WAIT_BLOCK and returns with nothing sent, and the next
\* poll sends the fetch command of the same channel again; once
\* retry_count is 5 the channel is skipped: the handler moves on to the
\* progression with no packet sent, no stop requested and no sample
\* delivered.
C26_EmptyWaveformRetry ==
    [][/\ EmptyWaveform =>
             /\ devc.num_block_read = 0
             /\ sess'.events = sess.events
             /\ StopsRequested = 0
             /\ ghost'.delivered = ghost.delivered
             /\ ghost'.path = ghost.path
             /\ devc'.channel_entry = devc.channel_entry
             /\ devc'.num_frames = devc.num_frames
             /\ IF devc.retry_count < 5
                THEN /\ devc'.retry_count = devc.retry_count + 1
                     /\ devc'.wait_event = "WAIT_BLOCK"
                     /\ loc'.pc = "idle"
                ELSE /\ devc.retry_count = 5
                     /\ loc'.pc = "progress"
       /\ RetryPoll =>
             /\ devc'.channel_entry = devc.channel_entry
             /\ devc'.retry_count = devc.retry_count
             /\ loc'.pc = "block" =>
                   scpi'.cmds[Len(scpi'.cmds)] = FetchCmd(devc)]_vars

\* After five retries the channel was skipped, the acquisition going on.
C26_Witness ==
    /\ loc.pc = "progress"
    /\ ghost.last_read = "empty"
    /\ ghost.path = "none"
    /\ sess.running
    /\ devc.retry_count = 0

\* The channel the cursor was on when siglent_sds_channel_start was called.
StartedChannel == wbd.before.enabled_channels[wbd.before.channel_entry]

\* The fetch command that addresses channel ch under this protocol: D{i}:WF?
\* for a logic channel of index i and C{i+1}:WF? ALL for an analog one, no
\* command for a logic channel of an ESERIES device.
AddressOf(protocol, ch) ==
    IF ch.type = "ANALOG" THEN <<"C:WF? ALL", ch.index + 1>>
    ELSE IF protocol = "ESERIES" THEN <<>>
    ELSE <<"D:WF?", ch.index>>

\* C27: siglent_sds_channel_start sends the fetch command that addresses
\* the current channel (D{i}:WF? for a logic channel of index i,
\* C{i+1}:WF? ALL for an analog channel of index i, nothing for a logic
\* channel under ESERIES); when the send fails it fails and leaves
\* wait_event and the block counters as they were.
C27_FetchCommand ==
    wbd.pc = "started" =>
        LET cmd == AddressOf(wbd.before.protocol, StartedChannel)
        IN IF cmd = <<>> \/ wbd.inp.send_ok
           THEN /\ wbd.ret = SR_OK
                /\ scpi.cmds = IF cmd = <<>> THEN <<>> ELSE <<cmd>>
           ELSE /\ wbd.ret = SR_ERR
                /\ scpi.cmds = <<>>
                /\ devc.wait_event = wbd.before.wait_event
                /\ devc.num_header_bytes = wbd.before.num_header_bytes
                /\ devc.num_block_bytes = wbd.before.num_block_bytes
                /\ devc.num_channel_bytes = wbd.before.num_channel_bytes

\* C28: arming with data source HISTORY fails when the device reports a
\* frame count below 1, in FPAR? under SPO_MODEL and in :FRAM? under
\* ESERIES: capture_start returns an error, wait_event is not changed and
\* limit_frames does not take a value below 1.
C28_FrameCountRejected ==
    (/\ Captured("SPO_MODEL", "HISTORY") \/ Captured("ESERIES", "HISTORY")
     /\ wbd.inp.fail_at = 0
     /\ wbd.inp.framecount < 1) =>
        /\ wbd.ret = SR_ERR
        /\ devc.wait_event = wbd.before.wait_event
        /\ devc.limit_frames = wbd.before.limit_frames

\* ---------------------------------------------------------------------
\* Properties of the logic branch.

\* In this step a transport call of the logic fetch failed.
FetchFailed ==
    /\ loc.pc = "block"
    /\ CurrentChannel(devc).type = "LOGIC"
    /\ ghost'.last_read \in DigitalFailures

\* C29: when the fetch of the logic data fails (the send of D{ch}:WF? DAT2,
\* sr_scpi_read_begin, or a read that gives a negative length), the poll
\* sends no logic packet and does not count the frame as completed.
C29_FetchFailureNoPacket ==
    [][FetchFailed =>
          /\ Sent("logic") = 0
          /\ devc'.num_frames = devc.num_frames]_vars

\* C30: when arming the next frame fails (capture_start returns an error
\* between two frames), the acquisition is aborted: no frame_begin is sent
\* for the frame that was not armed and no later poll reads a block of it.
C30_RearmFailureAborts ==
    ghost.rearm_failed =>
        /\ ~FrameOpen(sess)
        /\ LastEvent(sess).type # "frame_begin"
        /\ loc.pc = "idle"
        /\ ~sess.running

----------------------------------------------------------------------------
(* Fetch before header *)

\* C31: whenever the poll handler is about to read the header of a block of
\* an analog channel, a waveform fetch for that channel is outstanding: the
\* last command sent is the fetch command of the current channel and the
\* device is answering it.
C31_FetchBeforeHeader ==
    AtHeader =>
        /\ scpi.responding
        /\ scpi.cmds # <<>>
        /\ scpi.cmds[Len(scpi.cmds)] = FetchCmd(devc)

----------------------------------------------------------------------------
(* siglent_sds_set_wait_event on its own *)

\* The longest sequence of calls explored.
MaxCalls == 3

\* enum wait_events.
WaitEvents == {"WAIT_NONE", "WAIT_TRIGGER", "WAIT_BLOCK", "WAIT_STOP"}

\* One call of siglent_sds_set_wait_event with any event; wbd keeps the
\* events passed so far.
SetWaitEventCall ==
    /\ wbd.pc = "set_wait_event"
    /\ Len(wbd.calls) < MaxCalls
    /\ \E event \in WaitEvents :
          /\ devc' = set_wait_event(devc, event)
          /\ wbd' = [wbd EXCEPT !.calls = Append(@, event)]
    /\ UNCHANGED <<loc, scpi, sess, ghost>>

\* The device context as allocated (zeroed), under each protocol.
InitWait ==
    /\ devc \in [protocol : Protocols,
                 data_source : {"SCREEN"},
                 enabled_channels : {<<Analog(0)>>},
                 limit_frames : {0},
                 num_frames : {0},
                 channel_entry : {0},
                 wait_event : {"WAIT_NONE"},
                 wait_status : {0},
                 num_channel_bytes : {0},
                 num_header_bytes : {0},
                 num_block_bytes : {0},
                 num_samples : {0},
                 num_block_read : {0},
                 retry_count : {0},
                 close_history : {FALSE}]
    /\ wbd = [pc |-> "set_wait_event", calls |-> <<>>]
    /\ loc = [pc |-> "call"]
    /\ scpi = [cmds |-> <<>>, responding |-> FALSE, stream_len |-> 0,
               stream_pos |-> 0, now |-> 0]
    /\ sess = [events |-> <<>>]
    /\ ghost = [path |-> "none"]

NextWait == SetWaitEventCall

SpecWait == InitWait /\ [][NextWait]_vars

\* The event passed by the last call.
LastCall == wbd.calls[Len(wbd.calls)]

\* C32 (as stated): after any sequence of calls of set_wait_event,
\* wait_status is 1 or 2, wait_event is WAIT_STOP only under ESERIES and
\* then wait_status is 2, and wait_event WAIT_TRIGGER or WAIT_BLOCK implies
\* wait_status 1.
C32_WaitStateAsStated ==
    wbd.calls # <<>> =>
        /\ devc.wait_status \in {1, 2}
        /\ devc.wait_event = "WAIT_STOP" => devc.protocol = "ESERIES"
        /\ devc.wait_event = "WAIT_STOP" => devc.wait_status = 2
        /\ devc.wait_event \in {"WAIT_TRIGGER", "WAIT_BLOCK"} =>
               devc.wait_status = 1

\* C32 (amended): after any sequence of calls of set_wait_event,
\* wait_status is 1 or 2, and it is 2 exactly when the last call passed
\* WAIT_STOP; wait_event is WAIT_STOP only under ESERIES and then
\* wait_status is 2; wait_event WAIT_TRIGGER or WAIT_BLOCK implies
\* wait_status 1 under ESERIES, and under the other protocols unless the
\* last call passed WAIT_STOP.
C32_WaitState ==
    wbd.calls # <<>> =>
        /\ devc.wait_status \in {1, 2}
        /\ devc.wait_status = 2 <=> LastCall = "WAIT_STOP"
        /\ devc.wait_event = "WAIT_STOP" =>
               devc.protocol = "ESERIES" /\ devc.wait_status = 2
        /\ devc.wait_event \in {"WAIT_TRIGGER", "WAIT_BLOCK"} =>
               \/ devc.wait_status = 1
               \/ devc.protocol # "ESERIES" /\ LastCall = "WAIT_STOP"

\* A trigger wait was set, then a stop wait, under a protocol that keeps
\* the event: wait_event is WAIT_TRIGGER with wait_status 2.
C32_Witness ==
    /\ wbd.pc = "set_wait_event"
    /\ devc.protocol = "SPO_MODEL"
    /\ wbd.calls = <<"WAIT_TRIGGER", "WAIT_STOP">>
    /\ devc.wait_event = "WAIT_TRIGGER"
    /\ devc.wait_status = 2

----------------------------------------------------------------------------
(* Polls under a fair host loop and a cooperating device *)

\* A step in which the transport and the device cooperate: no transport call
\* fails, a wait for trigger or stop is satisfied by the first query, a
\* channel start is accepted, the device declares 1..MaxDataLength samples
\* for every block it is asked for, and every read of a block that was
\* requested hands over bytes (the whole header; payload bytes; the two
\* line feeds).
Cooperative ==
    /\ ~ghost'.fault
    /\ loc.pc = "wait" => loc'.pc = "block"
    /\ (loc.pc = "idle" /\ devc.wait_event = "WAIT_BLOCK") => loc'.pc = "block"
    /\ scpi'.responding => scpi'.stream_len \in 1..MaxDataLength
    /\ (AtHeader /\ scpi.responding) => loc'.pc = "loop"
    /\ loc.pc = "payload" => ghost'.last_read = "data"

\* The poll source stays subscribed until a stop is requested and the host
\* loop keeps calling it; the host issues no stop of its own.
NextFair ==
    \/ AcquisitionStart /\ Cooperative
    \/ ReceiveEntry /\ Cooperative
    \/ EventWaitStep /\ Cooperative
    \/ BlockBegin /\ Cooperative
    \/ LoopBegin /\ Cooperative
    \/ PayloadRead /\ Cooperative
    \/ BlockComplete /\ Cooperative
    \/ Progress /\ Cooperative
    \/ LogicFrame /\ Cooperative

SpecFair == Init /\ [][NextFair]_vars /\ WF_vars(NextFair)

\* The frame limit is known and frames are left to acquire.
FramesLeft ==
    /\ devc.limit_frames \in 1..FrameCap
    /\ devc.num_frames < devc.limit_frames

\* C33: with a frame limit of at least 1, fair polls and a cooperating
\* device, a running acquisition that has frames left eventually requests
\* stop; it requests stop with num_frames equal to limit_frames; and
\* num_frames never comes to exceed limit_frames (the acquisition is not
\* running once the limit is reached).
C33_Termination ==
    /\ (sess.running /\ FramesLeft) ~> (sess.stop_requests > 0)
    /\ [][(FramesLeft /\ StopsRequested > 0)
              => devc'.num_frames = devc'.limit_frames]_vars
    /\ [][FramesLeft =>
              /\ devc'.num_frames <= devc'.limit_frames
              /\ devc'.num_frames = devc'.limit_frames
                     => ~sess'.running]_vars

----------------------------------------------------------------------------
(* siglent_sds_get_dev_cfg: the trigger settings *)

\* The most fields a TRSE? response is given.
MaxFields == 5

\* Fields a response is made of (strings are sequences of characters): empty,
\* a channel name, a channel name after a blank, a delay in microseconds,
\* a bare unit.
TrseFieldValues ==
    { <<>>, <<"C", "1">>, <<" ", "C", "1">>, <<"1", "u", "s">>, <<"s">> }

\* The text of a response: the fields with a comma between them.
RECURSIVE Join(_)
Join(fields) ==
    IF fields = <<>> THEN <<>>
    ELSE IF Len(fields) = 1 THEN fields[1]
    ELSE fields[1] \o <<",">> \o Join(Tail(fields))

TrseResponses ==
    { Join(fs) : fs \in UNION { [1..n -> TrseFieldValues] : n \in 0..MaxFields } }

\* g_strsplit(response, ",", 0): the vector of the tokens between the commas;
\* the empty string gives the empty vector.
RECURSIVE SplitFrom(_, _, _, _)
SplitFrom(s, i, cur, acc) ==
    IF i > Len(s) THEN Append(acc, cur)
    ELSE IF s[i] = "," THEN SplitFrom(s, i + 1, <<>>, Append(acc, cur))
    ELSE SplitFrom(s, i + 1, Append(cur, s[i]), acc)

g_strsplit(s) == IF s = <<>> THEN <<>> ELSE SplitFrom(s, 1, <<>>, <<>>)

\* g_strstrip: leading and trailing blanks removed.
RECURSIVE g_strstrip(_)
g_strstrip(s) ==
    IF s = <<>> THEN s
    ELSE IF s[1] = " " THEN g_strstrip(Tail(s))
    ELSE IF s[Len(s)] = " " THEN g_strstrip(SubSeq(s, 1, Len(s) - 1))
    ELSE s

\* The divisor applied to the delay for the text found at offset len - 2 of
\* the token ("us", "ns", "ms", "s"; 0: no branch taken, the position stays
\* 0).  A text of two characters never equals "s".
DelayDivisor(suffix) ==
    IF suffix = <<"u", "s">> THEN "SR_GHZ(1)"
    ELSE IF suffix = <<"n", "s">> THEN "SR_MHZ(1)"
    ELSE IF suffix = <<"m", "s">> THEN "SR_KHZ(1)"
    ELSE IF suffix = <<"s">> THEN "1"
    ELSE "none"

DelayDivisors == {"SR_GHZ(1)", "SR_MHZ(1)", "SR_KHZ(1)", "1", "none"}

\* tokens[i] of the source (0-based) with num_tokens tokens in the vector.
Token(tokens, i) == tokens[i + 1]

\* "if (num_tokens < 4)"
TooFewTokens(num_tokens) == num_tokens < 4

\* TRSE? is queried, the response split and counted, the trigger source
\* taken from tokens[2].
TrseQuery ==
    /\ wbd.pc = "trse"
    /\ IF ~wbd.query_ok
       THEN wbd' = [wbd EXCEPT !.pc = "returned", !.ret = "SR_ERR"]
       ELSE LET tokens == g_strsplit(wbd.response)
                num_tokens == Len(tokens)
            IN IF TooFewTokens(num_tokens)
               THEN wbd' = [wbd EXCEPT !.pc = "returned",
                                       !.ret = "SR_ERR_DATA",
                                       !.num_tokens = num_tokens]
               ELSE wbd' = [wbd EXCEPT
                              !.pc = "delay",
                              !.num_tokens = num_tokens,
                              !.read = @ \cup {2},
                              !.trigger_source =
                                  g_strstrip(Token(tokens, 2))]
    /\ UNCHANGED <<devc, loc, scpi, sess, ghost>>

\* The horizontal trigger position is taken from tokens[4].  With four
\* tokens tokens[4] is the NULL that ends the vector and strlen(NULL) is
\* undefined: the process ends or goes on with any divisor.  With a token
\* shorter than two characters tokens[4] + (len - 2) points before the
\* token: the text compared is whatever lies there.
TrseDelay ==
    /\ wbd.pc = "delay"
    /\ LET tokens == g_strsplit(wbd.response)
           w1 == [wbd EXCEPT !.read = @ \cup {4}]
       IN IF wbd.num_tokens <= 4
          THEN \/ wbd' = [w1 EXCEPT !.pc = "crashed"]
               \/ \E div \in DelayDivisors :
                     wbd' = [w1 EXCEPT !.pc = "parsed", !.divisor = div]
          ELSE LET tok == Token(tokens, 4)
                   len == Len(tok)
               IN IF len < 2
                  THEN \E div \in DelayDivisors :
                          wbd' = [w1 EXCEPT !.pc = "parsed", !.divisor = div]
                  ELSE wbd' = [w1 EXCEPT
                                 !.pc = "parsed",
                                 !.divisor = DelayDivisor(
                                     SubSeq(tok, len - 1, len))]
    /\ UNCHANGED <<devc, loc, scpi, sess, ghost>>

InitConfig ==
    /\ wbd \in [pc : {"trse"}, query_ok : BOOLEAN, response : TrseResponses,
                num_tokens : {0}, read : {{}}, trigger_source : {<<>>},
                divisor : {"none"}, ret : {"SR_OK"}]
    /\ devc = [protocol |-> "SPO_MODEL"]
    /\ loc = [pc |-> "call"]
    /\ scpi = [cmds |-> <<<<"TRSE?">>>>]
    /\ sess = [events |-> <<>>]
    /\ ghost = [path |-> "none"]

NextConfig ==
    \/ TrseQuery
    \/ TrseDelay

SpecConfig == InitConfig /\ [][NextConfig]_vars

\* C34: a TRSE? response with fewer than 4 fields makes the read of the
\* configuration fail with SR_ERR_DATA, and every field that is read after
\* the field-count check exists: no index read is greater than or equal to
\* the number of fields.
C34_TrseFieldsExist ==
    /\ (wbd.query_ok /\ Len(g_strsplit(wbd.response)) < 4
            /\ wbd.pc # "trse") =>
           (wbd.pc = "returned" /\ wbd.ret = "SR_ERR_DATA")
    /\ \A i \in wbd.read : i < wbd.num_tokens

====
